---------------------------- MODULE Spec2Model ----------------------------
(***************************************************************************)
(* A model of daemon_console_lite: the TerminalApp line editor             *)
(* (src/src/lib.rs) and its TabTree completion engine (src/src/tab.rs).    *)
(*                                                                         *)
(* Strings are sequences of one-character strings, so that chars().count() *)
(* is Len and trimming, prefix tests and insertion are computed.  All      *)
(* characters used are ASCII, so byte lengths equal character counts.      *)
(* Option<T> is a sequence: <<>> is None and <<x>> is Some(x).             *)
(* Driver writes are assumed to succeed in the specification Spec.         *)
(***************************************************************************)
EXTENDS Integers, Sequences, FiniteSets, TLC

VARIABLES
    command_history,            \* Vec<String>
    current_input,              \* String
    history_index,              \* Option<usize>
    last_ctrl_c,                \* Option<Instant>
    cursor_position,            \* usize
    should_exit,                \* bool
    last_key_event,             \* Option<KeyEvent>
    tab_tree,                   \* Option<TabTree>
    current_completions,        \* Vec<CompletionCandidate>
    hints_rendered,             \* bool
    selected_completion_index,  \* usize
    stdout_handle,              \* io::Stdout: the terminal it writes to
    now,                        \* the monotonic clock read by Instant::now(), in ms
    ret,                        \* what the last call of an entry point returned and logged
    scope                       \* the part of the bounds this session is explored within

vars == <<command_history, current_input, history_index, last_ctrl_c,
          cursor_position, should_exit, last_key_event, tab_tree,
          current_completions, hints_rendered, selected_completion_index,
          stdout_handle, now, ret, scope>>

----------------------------------------------------------------------------
(* Bounds of the model *)

\* longest buffer the user types (Char keys are not offered beyond it)
MaxLen == 3
\* most lines submitted in one session
MaxHist == 2
\* the clock stops advancing here, in ms
MaxTime == 5000
\* most completion items registered in one session
MaxItems == 2

\* longest input given to the completion engine when it is driven directly
MaxInput == 3
\* most candidates of a hint line
MaxTotal == 12
\* height of the terminal, in rows
Rows == 3

(* Program constants *)

\* the confirm-to-exit window of handle_ctrl_c, in seconds
ExitWindow == 5
\* max_display of render_completion_hints
MaxDisplay == 5

----------------------------------------------------------------------------
(* Option and string helpers *)

None == <<>>
Some(x) == <<x>>
IsSome(o) == o # <<>>
Unwrap(o) == o[1]

Max(a, b) == IF a >= b THEN a ELSE b
Min(a, b) == IF a <= b THEN a ELSE b

\* char::is_whitespace, on the characters of the model
IsWhitespace(c) == c = " "

\* str::trim_start
RECURSIVE trim_start(_)
trim_start(s) ==
    IF s = <<>> THEN <<>>
    ELSE IF IsWhitespace(Head(s)) THEN trim_start(Tail(s))
    ELSE s

\* str::trim_end
RECURSIVE trim_end(_)
trim_end(s) ==
    IF s = <<>> THEN <<>>
    ELSE IF IsWhitespace(s[Len(s)]) THEN trim_end(SubSeq(s, 1, Len(s) - 1))
    ELSE s

\* str::trim
trim(s) == trim_end(trim_start(s))

\* str::starts_with
starts_with(s, p) == Len(p) <= Len(s) /\ SubSeq(s, 1, Len(p)) = p

\* str::strip_prefix(..).unwrap_or("")
strip_prefix_or_empty(s, p) ==
    IF starts_with(s, p) THEN SubSeq(s, Len(p) + 1, Len(s)) ELSE <<>>

\* str::contains
contains(s, sub) ==
    \E i \in 1..(Len(s) + 1) :
        i + Len(sub) - 1 <= Len(s) /\ SubSeq(s, i, i + Len(sub) - 1) = sub

\* str::split_whitespace().last().unwrap_or(""): the last maximal run of
\* non-whitespace characters
split_whitespace_last(s) ==
    LET t == trim_end(s)
        starts == {i \in 1..Len(t) : \A j \in i..Len(t) : ~IsWhitespace(t[j])}
    IN  IF t = <<>> THEN <<>>
        ELSE SubSeq(t, CHOOSE i \in starts : \A k \in starts : i <= k, Len(t))

----------------------------------------------------------------------------
(* tab.rs: the completion engine *)

\* MatchStrategy::default()
DefaultStrategy == "Prefix"

\* CompletionItem::new
CompletionItem_new(text) == [text |-> text, description |-> None, priority |-> 0]

\* CompletionItem::with_description
with_description(item, desc) == [item EXCEPT !.description = Some(desc)]

\* CompletionItem::with_priority
with_priority(item, priority) == [item EXCEPT !.priority = priority]

\* TabNode::new
TabNode_new(trigger) ==
    [trigger |-> trigger, completions |-> <<>>, children |-> <<>>,
     match_strategy |-> DefaultStrategy]

\* TabTree::new
TabTree_new ==
    [root |-> TabNode_new(None), current_candidates |-> <<>>, last_input |-> <<>>]

\* find_node_exists, the first inner function of find_or_create_node
RECURSIVE find_node_exists(_, _)
find_node_exists(node, trigger) ==
    \/ node.trigger = Some(trigger)
    \/ \E i \in 1..Len(node.children) : find_node_exists(node.children[i], trigger)

\* find_node_mut, the second inner function of find_or_create_node.  The
\* mutable reference it returns is the path of child indices from the root
\* to the first node, in depth-first order, that has the trigger.
RECURSIVE find_node_mut(_, _)
find_node_mut(node, trigger) ==
    IF node.trigger = Some(trigger) THEN Some(<<>>)
    ELSE LET hits == {i \in 1..Len(node.children) :
                         IsSome(find_node_mut(node.children[i], trigger))}
         IN  IF hits = {} THEN None
             ELSE LET i == CHOOSE k \in hits : \A m \in hits : k <= m
                  IN  Some(<<i>> \o Unwrap(find_node_mut(node.children[i], trigger)))

\* the node a path refers to
RECURSIVE node_at(_, _)
node_at(node, path) ==
    IF path = <<>> THEN node ELSE node_at(node.children[Head(path)], Tail(path))

\* the tree with the node at a path replaced (a write through the reference)
RECURSIVE node_put(_, _, _)
node_put(node, path, new) ==
    IF path = <<>> THEN new
    ELSE [node EXCEPT !.children[Head(path)] =
                          node_put(node.children[Head(path)], Tail(path), new)]

\* find_or_create_node creating a node without looking for an existing one
find_or_create_node_always_creates(tree, trigger) ==
    IF trigger = None THEN [tree |-> tree, node |-> Some(<<>>)]
    ELSE LET t1 == [tree EXCEPT !.root.children =
                        Append(@, TabNode_new(Some(Unwrap(trigger))))]
         IN  [tree |-> t1, node |-> Some(<<Len(t1.root.children)>>)]

\* TabTree::find_or_create_node: the tree after it, and the path of the
\* node it returns (None when find_node_mut finds nothing)
find_or_create_node(tree, trigger) ==
    IF trigger = None THEN [tree |-> tree, node |-> Some(<<>>)]
    ELSE LET trigger_str == Unwrap(trigger)
             t1 == IF ~find_node_exists(tree.root, trigger_str)
                   THEN [tree EXCEPT !.root.children =
                             Append(@, TabNode_new(Some(trigger_str)))]
                   ELSE tree
         IN  [tree |-> t1, node |-> find_node_mut(t1.root, trigger_str)]

\* the trigger Option built from a context string by the registration calls
context_trigger(context) == IF context = <<>> THEN None ELSE Some(context)

\* register_completions_advanced replacing the items of the node
register_completions_advanced_replaces(tree, context, items, strategy) ==
    LET r == find_or_create_node(tree, context_trigger(context))
    IN  IF IsSome(r.node)
        THEN LET path == Unwrap(r.node)
                 node == node_at(r.tree.root, path)
                 new  == [node EXCEPT !.completions = items,
                                      !.match_strategy = strategy]
             IN  [r.tree EXCEPT !.root = node_put(r.tree.root, path, new)]
        ELSE r.tree

\* TabTree::register_completions_advanced
register_completions_advanced(tree, context, items, strategy) ==
    LET r == find_or_create_node(tree, context_trigger(context))
    IN  IF IsSome(r.node)
        THEN LET path == Unwrap(r.node)
                 node == node_at(r.tree.root, path)
                 new  == [node EXCEPT !.completions = @ \o items,
                                      !.match_strategy = strategy]
             IN  [r.tree EXCEPT !.root = node_put(r.tree.root, path, new)]
        ELSE r.tree

\* TabTree::register_completions
register_completions(tree, context, completions) ==
    register_completions_advanced(tree, context,
        [i \in 1..Len(completions) |-> CompletionItem_new(completions[i])],
        DefaultStrategy)

\* TabTree::register_completions_with_desc; items are <<text, desc>> pairs
register_completions_with_desc(tree, context, items) ==
    register_completions_advanced(tree, context,
        [i \in 1..Len(items) |->
            with_description(CompletionItem_new(items[i][1]), items[i][2])],
        DefaultStrategy)

\* TabTree::add_completion; description is an Option
add_completion(tree, context, text, description) ==
    LET r == find_or_create_node(tree, context_trigger(context))
    IN  IF IsSome(r.node)
        THEN LET path == Unwrap(r.node)
                 node == node_at(r.tree.root, path)
                 item == IF IsSome(description)
                         THEN with_description(CompletionItem_new(text),
                                               Unwrap(description))
                         ELSE CompletionItem_new(text)
                 new  == [node EXCEPT !.completions = Append(@, item)]
             IN  [r.tree EXCEPT !.root = node_put(r.tree.root, path, new)]
        ELSE r.tree

\* the nodes in the order the inner function search of find_deepest_match
\* visits them: a node, then its children's subtrees in order
RECURSIVE search_order(_)
RECURSIVE search_order_children(_, _)
search_order(node) == <<node>> \o search_order_children(node.children, 1)
search_order_children(children, i) ==
    IF i > Len(children) THEN <<>>
    ELSE search_order(children[i]) \o search_order_children(children, i + 1)

\* search keeping the first node whose trigger is a prefix of the input
RECURSIVE search_first_prefix(_, _, _, _, _)
search_first_prefix(nodes, i, input, best, best_len) ==
    IF i > Len(nodes) THEN best
    ELSE LET node == nodes[i]
         IN  IF /\ IsSome(node.trigger)
                /\ starts_with(input, Unwrap(node.trigger))
                /\ best_len = 0
             THEN search_first_prefix(nodes, i + 1, input, node,
                                      Len(Unwrap(node.trigger)))
             ELSE search_first_prefix(nodes, i + 1, input, best, best_len)

\* the visits of search applied to nodes[i..], from the best match so far
RECURSIVE search(_, _, _, _, _)
search(nodes, i, input, best, best_len) ==
    IF i > Len(nodes) THEN best
    ELSE LET node == nodes[i]
         IN  IF /\ IsSome(node.trigger)
                /\ starts_with(input, Unwrap(node.trigger))
                /\ Len(Unwrap(node.trigger)) > best_len
             THEN search(nodes, i + 1, input, node, Len(Unwrap(node.trigger)))
             ELSE search(nodes, i + 1, input, best, best_len)

\* TabTree::find_deepest_match
find_deepest_match(tree, input) ==
    search(search_order(tree.root), 1, input, tree.root, 0)

\* the stable insertion of one item into a list already sorted by
\* priority, higher first: after every item of priority >= its own
RECURSIVE insert_by_priority(_, _)
insert_by_priority(sorted, item) ==
    IF sorted = <<>> THEN <<item>>
    ELSE IF Head(sorted).priority >= item.priority
         THEN <<Head(sorted)>> \o insert_by_priority(Tail(sorted), item)
         ELSE <<item>> \o sorted

\* candidates.sort_by(|a, b| b.priority.cmp(&a.priority)): a stable sort,
\* higher priority first
RECURSIVE sort_by_priority(_)
sort_by_priority(items) ==
    IF items = <<>> THEN <<>>
    ELSE insert_by_priority(sort_by_priority(SubSeq(items, 1, Len(items) - 1)),
                            items[Len(items)])

\* the match on node.match_strategy in get_candidates
apply_strategy(node, input) ==
    LET candidates == node.completions
    IN  CASE node.match_strategy = "All" -> candidates
          [] node.match_strategy = "Prefix" ->
                LET suffix == IF IsSome(node.trigger)
                              THEN trim_start(strip_prefix_or_empty(input,
                                                  Unwrap(node.trigger)))
                              ELSE input
                    Keep(item) == starts_with(item.text, suffix)
                IN  IF suffix # <<>> THEN SelectSeq(candidates, Keep)
                    ELSE candidates
          [] node.match_strategy = "Contains" ->
                LET srch == split_whitespace_last(input)
                    Keep(item) == contains(item.text, srch)
                IN  IF srch # <<>> THEN SelectSeq(candidates, Keep)
                    ELSE candidates

\* the CompletionCandidate built from an item of a node
build_candidate(node, item) ==
    LET trigger_prefix == IF IsSome(node.trigger) THEN Unwrap(node.trigger) ELSE <<>>
    IN  [full_text   |-> IF trigger_prefix = <<>> THEN item.text
                         ELSE trigger_prefix \o <<" ">> \o item.text,
         completion  |-> item.text,
         description |-> item.description]

\* get_candidates remembering the input of a query but not its result
get_candidates_forgets_result(tree, input) ==
    IF input = tree.last_input
    THEN [tree |-> tree, result |-> tree.current_candidates]
    ELSE LET built(node, sorted) ==
                 [tree   |-> [tree EXCEPT !.last_input = input],
                  result |-> [i \in 1..Len(sorted) |-> build_candidate(node, sorted[i])]]
             from(node) ==
                 built(node, sort_by_priority(apply_strategy(node, input)))
         IN  from(find_deepest_match(tree, input))

\* TabTree::get_candidates: the tree after the call (its cache) and the result
get_candidates(tree, input) ==
    IF input = tree.last_input
    THEN [tree |-> tree, result |-> tree.current_candidates]
    ELSE LET cached(result) ==
                 [tree   |-> [tree EXCEPT !.last_input = input,
                                          !.current_candidates = result],
                  result |-> result]
             built(node, sorted) ==
                 cached([i \in 1..Len(sorted) |-> build_candidate(node, sorted[i])])
             from(node) ==
                 built(node, sort_by_priority(apply_strategy(node, input)))
         IN  from(find_deepest_match(tree, input))

\* TabTree::get_best_match: the tree after the call and the Option returned
get_best_match(tree, input) ==
    LET first(r) ==
            [tree   |-> r.tree,
             result |-> IF r.result = <<>> THEN None
                        ELSE Some(r.result[1].full_text)]
    IN  first(get_candidates(tree, input))

\* TabTree::clear_cache
clear_cache(tree) == [tree EXCEPT !.last_input = <<>>, !.current_candidates = <<>>]

----------------------------------------------------------------------------
(* The terminal behind stdout_handle, in raw mode: a screen of rows of     *)
(* characters, the cursor (row from 1, column from 0), the position kept   *)
(* by SavePosition and whether the cursor is shown.  Lines are taken to be *)
(* shorter than the screen is wide, colours are left out, and every        *)
(* character is one column wide.  What scrolls off the top is gone.        *)
(* fails_after is the number of commands the driver still carries out      *)
(* before it fails one (None: it fails none), err that a failure is on its *)
(* way to the caller as an Err.                                            *)

\* the line feed character
LF == "\n"

\* stdout that is not a terminal anybody looks at: nothing written is kept
Detached ==
    [rows |-> <<>>, row |-> 0, col |-> 0, saved |-> <<0, 0>>, visible |-> TRUE,
     fails_after |-> None, err |-> FALSE]

\* a cleared terminal of height rows, the cursor at the top left, hidden by
\* setup_terminal
Terminal(height) ==
    [rows |-> [i \in 1..height |-> <<>>], row |-> 1, col |-> 0,
     saved |-> <<1, 0>>, visible |-> FALSE, fails_after |-> None,
     err |-> FALSE]

\* one command given to the driver, done being the terminal once it is
\* carried out: it is not reached when an Err is on its way to the caller,
\* and it fails, without effect, when fails_after is used up
command(t, done) ==
    IF t.rows = <<>> \/ t.err THEN t
    ELSE IF t.fails_after = None THEN done
    ELSE IF Unwrap(t.fails_after) = 0
    THEN [t EXCEPT !.fails_after = None, !.err = TRUE]
    ELSE [done EXCEPT !.fails_after = Some(Unwrap(@) - 1)]

\* `let _ = ...`: the Result of the commands that gave t is dropped
Ignored(t) == [t EXCEPT !.err = FALSE]

\* Write::flush, also the end of every execute!
Flush(t) == command(t, t)

\* cursor::MoveToColumn
MoveToColumn(t, column) == command(t, [t EXCEPT !.col = column])

\* cursor::MoveDown: stops at the bottom row
MoveDown(t, n) == command(t, [t EXCEPT !.row = Min(@ + n, Len(t.rows))])

\* cursor::MoveUp: stops at the top row
MoveUp(t, n) == command(t, [t EXCEPT !.row = Max(@ - n, 1)])

\* cursor::SavePosition: the position on the screen
SavePosition(t) == command(t, [t EXCEPT !.saved = <<t.row, t.col>>])

\* cursor::RestorePosition: back to the saved position on the screen,
\* whatever has scrolled since
RestorePosition(t) ==
    command(t, [t EXCEPT !.row = t.saved[1], !.col = t.saved[2]])

\* cursor::Hide
Hide(t) == command(t, [t EXCEPT !.visible = FALSE])

\* cursor::Show
Show(t) == command(t, [t EXCEPT !.visible = TRUE])

\* style::SetForegroundColor
SetForegroundColor(t) == command(t, t)

\* style::ResetColor
ResetColor(t) == command(t, t)

\* Clear(ClearType::CurrentLine): the cursor stays
ClearCurrentLine(t) == command(t, [t EXCEPT !.rows[t.row] = <<>>])

\* Clear(ClearType::UntilNewLine): from the cursor to the end of the line
ClearUntilNewLine(t) ==
    command(t, [t EXCEPT !.rows[t.row] = SubSeq(@, 1, Min(t.col, Len(@)))])

\* a line with the character c put at a column
put(line, column, c) ==
    [i \in 1..Max(Len(line), column + 1) |->
        IF i = column + 1 THEN c
        ELSE IF i <= Len(line) THEN line[i] ELSE " "]

\* a line feed in raw mode: one row down in the same column; at the bottom
\* row the screen scrolls up by one row instead
line_feed(t) ==
    IF t.row = Len(t.rows)
    THEN [t EXCEPT !.rows = Tail(@) \o << <<>> >>]
    ELSE [t EXCEPT !.row = @ + 1]

\* the characters of text put on the screen at the cursor
RECURSIVE write_str(_, _)
write_str(t, text) ==
    IF text = <<>> THEN t
    ELSE IF Head(text) = LF THEN write_str(line_feed(t), Tail(text))
    ELSE write_str([t EXCEPT !.rows[t.row] = put(@, t.col, Head(text)),
                             !.col = @ + 1],
                   Tail(text))

\* style::Print and write!: the characters of text at the cursor
Write(t, text) == command(t, write_str(t, text))

\* writeln!: the text and a line feed
writeln(t, text) == command(t, write_str(t, text \o <<LF>>))

\* format!("{}", n) of a usize
RECURSIVE to_string(_)
to_string(n) ==
    LET digit(d) == <<"0", "1", "2", "3", "4", "5", "6", "7", "8", "9">>[d + 1]
    IN  IF n < 10 THEN <<digit(n)>>
        ELSE to_string(n \div 10) \o <<digit(n % 10)>>

----------------------------------------------------------------------------
(* lib.rs: TerminalApp.  Its methods are written as functions of the       *)
(* record s of the fields of self; those that return a value give a record *)
(* with the fields after the call in app.                                  *)

\* the fields of self, as one record
St ==
    [command_history |-> command_history, current_input |-> current_input,
     history_index |-> history_index, last_ctrl_c |-> last_ctrl_c,
     cursor_position |-> cursor_position, should_exit |-> should_exit,
     last_key_event |-> last_key_event, tab_tree |-> tab_tree,
     current_completions |-> current_completions,
     hints_rendered |-> hints_rendered,
     selected_completion_index |-> selected_completion_index,
     stdout_handle |-> stdout_handle]

\* TerminalApp::new
TerminalApp_new ==
    [command_history |-> <<>>, current_input |-> <<>>, history_index |-> None,
     last_ctrl_c |-> None, cursor_position |-> 0, should_exit |-> FALSE,
     last_key_event |-> None, tab_tree |-> None, current_completions |-> <<>>,
     hints_rendered |-> FALSE, selected_completion_index |-> 0,
     stdout_handle |-> Detached]

\* remove_char_at removing the character after the index
remove_char_at_after(s, index) ==
    IF index + 1 < Len(s.current_input)
    THEN [s EXCEPT !.current_input =
             SubSeq(@, 1, index + 1) \o SubSeq(@, index + 3, Len(@))]
    ELSE s

\* TerminalApp::remove_char_at; index counts from 0
remove_char_at(s, index) ==
    IF index < Len(s.current_input)
    THEN [s EXCEPT !.current_input =
             SubSeq(@, 1, index) \o SubSeq(@, index + 2, Len(@))]
    ELSE s

\* TerminalApp::enable_tab_completion
enable_tab_completion(s) == [s EXCEPT !.tab_tree = Some(TabTree_new)]

\* TerminalApp::register_tab_completions
register_tab_completions(s, context, completions) ==
    IF IsSome(s.tab_tree)
    THEN [s EXCEPT !.tab_tree =
             Some(register_completions(Unwrap(@), context, completions))]
    ELSE s

\* TerminalApp::register_tab_completions_with_desc
register_tab_completions_with_desc(s, context, items) ==
    IF IsSome(s.tab_tree)
    THEN [s EXCEPT !.tab_tree =
             Some(register_completions_with_desc(Unwrap(@), context, items))]
    ELSE s

\* TerminalApp::add_tab_completion
add_tab_completion(s, context, text, description) ==
    IF IsSome(s.tab_tree)
    THEN [s EXCEPT !.tab_tree =
             Some(add_completion(Unwrap(@), context, text, description))]
    ELSE s

\* the prompt of the input line
Prompt == <<">", " ">>

\* clear_input_line erasing the two lines and leaving hints_rendered as it is
clear_input_line_keeps_flag(s) ==
    IF s.hints_rendered
    THEN [s EXCEPT !.stdout_handle =
                       Ignored(Flush(MoveToColumn(MoveUp(ClearCurrentLine(
                           MoveDown(ClearCurrentLine(MoveToColumn(@, 0)), 1)),
                           1), 0)))]
    ELSE [s EXCEPT !.stdout_handle =
                       Ignored(Flush(ClearCurrentLine(MoveToColumn(@, 0))))]

\* TerminalApp::clear_input_line
clear_input_line(s) ==
    IF s.hints_rendered
    THEN [s EXCEPT !.stdout_handle =
                       Ignored(Flush(MoveToColumn(MoveUp(ClearCurrentLine(
                           MoveDown(ClearCurrentLine(MoveToColumn(@, 0)), 1)),
                           1), 0))),
                   !.hints_rendered = FALSE]
    ELSE [s EXCEPT !.stdout_handle =
                       Ignored(Flush(ClearCurrentLine(MoveToColumn(@, 0))))]

\* a call on the fields s has failed: its Err is on its way to the caller
failed(s) == s.stdout_handle.err

\* TerminalApp::calculate_visual_cursor_pos
calculate_visual_cursor_pos(s) ==
    2 + Min(s.cursor_position, Len(s.current_input))

\* render_completion_hints starting the window at the selection instead of
\* centring it
hint_window_uncentred(total_count, selected) ==
    IF total_count <= MaxDisplay
    THEN [start_idx |-> 0, end_idx |-> total_count]
    ELSE LET half_window == MaxDisplay \div 2
             start == IF selected <= half_window THEN 0
                      ELSE Min(selected, total_count - MaxDisplay)
         IN  [start_idx |-> start, end_idx |-> start + MaxDisplay]

\* render_completion_hints: the window of candidates displayed
hint_window(total_count, selected) ==
    IF total_count <= MaxDisplay
    THEN [start_idx |-> 0, end_idx |-> total_count]
    ELSE LET half_window == MaxDisplay \div 2
             start == IF selected <= half_window THEN 0
                      ELSE IF selected >= total_count - half_window
                           THEN total_count - MaxDisplay
                      ELSE selected - half_window
         IN  [start_idx |-> start, end_idx |-> start + MaxDisplay]

\* render_completion_hints: the text of one candidate
item_text(candidate) ==
    <<"[">> \o candidate.completion
        \o (IF IsSome(candidate.description)
            THEN <<":", " ">> \o Unwrap(candidate.description) ELSE <<>>)
        \o <<"]">>

\* render_completion_hints: the candidates idx..end_idx-1 drawn on the
\* terminal t, two spaces between them
RECURSIVE hint_items(_, _, _, _, _)
hint_items(t, candidates, start_idx, idx, end_idx) ==
    IF t.err \/ idx >= end_idx THEN t
    ELSE LET apart(u) ==
                 IF idx > start_idx THEN Flush(Write(u, <<" ", " ">>)) ELSE u
             item(u) ==
                 Flush(Write(Flush(SetForegroundColor(u)),
                             item_text(candidates[idx + 1])))
         IN  hint_items(item(apart(t)), candidates, start_idx, idx + 1, end_idx)

\* render_completion_hints: the indicator of the candidates not displayed
hidden_indicator(start_idx, end_idx, total_count) ==
    IF start_idx > 0 \/ end_idx < total_count
    THEN LET hidden_left == start_idx
             hidden_right == total_count - end_idx
         IN  IF hidden_left > 0 /\ hidden_right > 0
             THEN <<" ", " ", "(", "+">> \o to_string(hidden_left)
                      \o <<"/", "+">> \o to_string(hidden_right) \o <<")">>
             ELSE IF hidden_left > 0
             THEN <<" ", " ", "(", "+">> \o to_string(hidden_left) \o <<"←", ")">>
             ELSE <<" ", " ", "(", "→", "+">> \o to_string(hidden_right) \o <<")">>
    ELSE <<>>

\* TerminalApp::render_completion_hints: draws the hint line on the row
\* under the cursor and comes back
render_completion_hints(s) ==
    LET total_count == Len(s.current_completions)
        begun(t) == Flush(MoveToColumn(Write(SavePosition(t), <<LF>>), 0))
        indicator(t, text) ==
            IF t.err \/ text = <<>> THEN t ELSE Flush(Write(t, text))
        ended(t) ==
            IF t.err THEN t
            ELSE Flush(RestorePosition(ClearUntilNewLine(ResetColor(t))))
        draw(t, w) ==
            ended(indicator(
                      hint_items(begun(t), s.current_completions, w.start_idx,
                                 w.start_idx, w.end_idx),
                      hidden_indicator(w.start_idx, w.end_idx, total_count)))
        drawn(r) == IF failed(r) THEN r ELSE [r EXCEPT !.hints_rendered = TRUE]
    IN  drawn([s EXCEPT !.stdout_handle =
                            IF @.rows = <<>> THEN @
                            ELSE draw(@, hint_window(total_count,
                                                     s.selected_completion_index))])

\* TerminalApp::render_input_content
render_input_content(s) ==
    LET written == [s EXCEPT !.stdout_handle =
                                 Flush(Write(Write(@, Prompt), s.current_input))]
        finish(r) ==
            IF failed(r) THEN r
            ELSE [r EXCEPT !.stdout_handle =
                      Flush(Flush(Show(MoveToColumn(
                          @, calculate_visual_cursor_pos(r)))))]
    IN  finish(IF s.current_completions # <<>>
               THEN render_completion_hints(written) ELSE written)

\* the cursor::Show that follows an Err of the closure of render_input_line
\* and of render_input_line_no_clear, before the Err is returned
show_on_error(r) ==
    IF failed(r)
    THEN [r EXCEPT !.stdout_handle =
                       [Flush(Show(Ignored(@))) EXCEPT !.err = TRUE]]
    ELSE r

\* render_input_line returning the Err of its closure as it is
render_input_line_leaves_hidden(s) ==
    LET hidden(r) ==
            IF failed(r) THEN r ELSE render_input_content(clear_input_line(r))
    IN  hidden([s EXCEPT !.stdout_handle = Flush(Hide(@))])

\* TerminalApp::render_input_line
render_input_line(s) ==
    LET hidden(r) ==
            IF failed(r) THEN r ELSE render_input_content(clear_input_line(r))
    IN  show_on_error(hidden([s EXCEPT !.stdout_handle = Flush(Hide(@))]))

\* TerminalApp::render_input_line_no_clear
render_input_line_no_clear(s) ==
    show_on_error(render_input_content(
        [s EXCEPT !.stdout_handle = Flush(MoveToColumn(Flush(Hide(@)), 0))]))

\* TerminalApp::print_log_entry
print_log_entry(s, log_line) ==
    LET cleared(r) ==
            [r EXCEPT !.stdout_handle =
                 Ignored(Flush(MoveToColumn(
                     Ignored(Flush(Ignored(writeln(@, log_line)))), 0)))]
        redrawn(r) == [r EXCEPT !.stdout_handle = Ignored(@)]
    IN  redrawn(render_input_line_no_clear(cleared(clear_input_line(s))))

\* handle_enter_key: the submitted line written after its prefix
echo_input(s, input_prefix) ==
    [s EXCEPT !.stdout_handle = writeln(@, input_prefix \o s.current_input)]

\* update_completions keeping the list of the query and not the engine
\* that answered it
update_completions_drops_engine(s) ==
    IF IsSome(s.tab_tree)
    THEN LET assign(r) == [s EXCEPT !.current_completions = r.result,
                                    !.selected_completion_index = 0]
         IN  assign(get_candidates(Unwrap(s.tab_tree), s.current_input))
    ELSE s

\* TerminalApp::update_completions
update_completions(s) ==
    IF IsSome(s.tab_tree)
    THEN LET assign(r) == [s EXCEPT !.tab_tree = Some(r.tree),
                                    !.current_completions = r.result,
                                    !.selected_completion_index = 0]
         IN  assign(get_candidates(Unwrap(s.tab_tree), s.current_input))
    ELSE s

\* handle_char_input writing the edited text through to the history entry
\* being browsed
handle_char_input_writes_history(s, c) ==
    LET char_count == Len(s.current_input)
        pos == IF s.cursor_position > char_count THEN char_count
               ELSE s.cursor_position
        text == SubSeq(s.current_input, 1, pos) \o <<c>>
                    \o SubSeq(s.current_input, pos + 1, char_count)
    IN  [s EXCEPT !.current_input = text,
                  !.cursor_position = pos + 1,
                  !.command_history =
                      IF IsSome(s.history_index)
                      THEN [@ EXCEPT ![Unwrap(s.history_index) + 1] = text]
                      ELSE @]

\* TerminalApp::handle_char_input
handle_char_input(s, c) ==
    LET char_count == Len(s.current_input)
        pos == IF s.cursor_position > char_count THEN char_count
               ELSE s.cursor_position
    IN  [s EXCEPT !.current_input =
                      SubSeq(@, 1, pos) \o <<c>> \o SubSeq(@, pos + 1, Len(@)),
                  !.cursor_position = pos + 1]

\* handle_ctrl_d asking for a second press while there is input, as
\* handle_ctrl_c does
handle_ctrl_d_confirm(s) ==
    [app  |-> clear_input_line([s EXCEPT !.current_input = <<>>,
                                         !.cursor_position = 0,
                                         !.current_completions = <<>>]),
     quit |-> s.current_input = <<>>]

\* TerminalApp::handle_ctrl_d
handle_ctrl_d(s) ==
    [app  |-> clear_input_line([s EXCEPT !.current_input = <<>>,
                                         !.cursor_position = 0,
                                         !.current_completions = <<>>]),
     quit |-> TRUE]

\* the messages handle_ctrl_c returns
MsgCleared == "Input cleared. Press Ctrl+C again to exit."
MsgExiting == "Exiting application. Goodbye!"
MsgAgain == "Press Ctrl+C again to exit."

\* last_time.elapsed().as_secs() at clock time t: the whole seconds of the
\* elapsed milliseconds
elapsed_as_secs(last_time, t) == (t - last_time) \div 1000

\* handle_ctrl_c with the window closed by <= instead of <
handle_ctrl_c_inclusive(s, t) ==
    IF s.current_input # <<>>
    THEN [app |-> [s EXCEPT !.current_input = <<>>,
                            !.cursor_position = 0,
                            !.current_completions = <<>>,
                            !.last_ctrl_c = Some(t)],
          quit |-> FALSE, message |-> MsgCleared]
    ELSE IF IsSome(s.last_ctrl_c)
            /\ elapsed_as_secs(Unwrap(s.last_ctrl_c), t) <= ExitWindow
    THEN [app |-> s, quit |-> TRUE, message |-> MsgExiting]
    ELSE [app |-> [s EXCEPT !.last_ctrl_c = Some(t)],
          quit |-> FALSE, message |-> MsgAgain]

\* handle_ctrl_c looking at the timer before it looks at the buffer
handle_ctrl_c_timer_first(s, t) ==
    IF IsSome(s.last_ctrl_c)
       /\ elapsed_as_secs(Unwrap(s.last_ctrl_c), t) < ExitWindow
    THEN [app |-> s, quit |-> TRUE, message |-> MsgExiting]
    ELSE IF s.current_input # <<>>
    THEN [app |-> [s EXCEPT !.current_input = <<>>,
                            !.cursor_position = 0,
                            !.current_completions = <<>>,
                            !.last_ctrl_c = Some(t)],
          quit |-> FALSE, message |-> MsgCleared]
    ELSE [app |-> [s EXCEPT !.last_ctrl_c = Some(t)],
          quit |-> FALSE, message |-> MsgAgain]

\* TerminalApp::handle_ctrl_c, called when the clock reads t
handle_ctrl_c(s, t) ==
    IF s.current_input # <<>>
    THEN [app |-> [s EXCEPT !.current_input = <<>>,
                            !.cursor_position = 0,
                            !.current_completions = <<>>,
                            !.last_ctrl_c = Some(t)],
          quit |-> FALSE, message |-> MsgCleared]
    ELSE IF IsSome(s.last_ctrl_c)
            /\ elapsed_as_secs(Unwrap(s.last_ctrl_c), t) < ExitWindow
    THEN [app |-> s, quit |-> TRUE, message |-> MsgExiting]
    ELSE [app |-> [s EXCEPT !.last_ctrl_c = Some(t)],
          quit |-> FALSE, message |-> MsgAgain]

\* the load of a history entry that keeps its index counted from 1
load_history_from_one(s, new_index) ==
    update_completions(
        [s EXCEPT !.history_index = Some(new_index + 1),
                  !.current_input = s.command_history[new_index + 1],
                  !.cursor_position = Len(s.command_history[new_index + 1])])

\* the load of history entry new_index (counted from 0) that ends
\* handle_up_key and handle_down_key
load_history(s, new_index) ==
    update_completions(
        [s EXCEPT !.history_index = Some(new_index),
                  !.current_input = s.command_history[new_index + 1],
                  !.cursor_position = Len(s.command_history[new_index + 1])])

\* handle_up_key going round from the oldest entry to the newest
handle_up_key_wraps(s) ==
    IF s.command_history = <<>> THEN s
    ELSE IF IsSome(s.history_index) /\ Unwrap(s.history_index) > 0
         THEN load_history(s, Unwrap(s.history_index) - 1)
         ELSE load_history(s, Len(s.command_history) - 1)

\* TerminalApp::handle_up_key
handle_up_key(s) ==
    IF s.command_history = <<>> THEN s
    ELSE IF IsSome(s.history_index)
         THEN IF Unwrap(s.history_index) > 0
              THEN load_history(s, Unwrap(s.history_index) - 1)
              ELSE s
         ELSE load_history(s, Len(s.command_history) - 1)

\* handle_down_key leaving the cursor where it was when it stops browsing
handle_down_key_keeps_cursor(s) ==
    IF IsSome(s.history_index)
    THEN IF Unwrap(s.history_index) < Len(s.command_history) - 1
         THEN load_history(s, Unwrap(s.history_index) + 1)
         ELSE update_completions([s EXCEPT !.history_index = None,
                                           !.current_input = <<>>])
    ELSE s

\* handle_down_key staying on the last entry instead of leaving the history
handle_down_key_stays(s) ==
    IF IsSome(s.history_index)
    THEN IF Unwrap(s.history_index) < Len(s.command_history) - 1
         THEN load_history(s, Unwrap(s.history_index) + 1)
         ELSE s
    ELSE s

\* TerminalApp::handle_down_key
handle_down_key(s) ==
    IF IsSome(s.history_index)
    THEN IF Unwrap(s.history_index) < Len(s.command_history) - 1
         THEN load_history(s, Unwrap(s.history_index) + 1)
         ELSE update_completions([s EXCEPT !.history_index = None,
                                           !.current_input = <<>>,
                                           !.cursor_position = 0])
    ELSE s

\* handle_enter_key submitting the trimmed buffer instead of the raw one
handle_enter_key_trimmed(s) ==
    IF trim(s.current_input) # <<>>
    THEN LET s1 == clear_input_line(
                       [s EXCEPT !.command_history = Append(@, trim(s.current_input)),
                                 !.current_completions = <<>>])
             input_copy == trim(s1.current_input)
             echoed == echo_input(s1, Prompt)
             s2 == IF failed(echoed) THEN echoed
                   ELSE render_input_line([echoed EXCEPT !.current_input = <<>>,
                                                         !.cursor_position = 0,
                                                         !.history_index = None])
         IN  [app |-> s2, should_exit |-> s2.should_exit, input |-> Some(input_copy)]
    ELSE LET s1 == render_input_line(
                       clear_input_line([s EXCEPT !.current_completions = <<>>]))
         IN  [app |-> s1, should_exit |-> s1.should_exit, input |-> None]

\* handle_enter_key testing the buffer with is_empty, without trimming it
handle_enter_key_untrimmed_test(s) ==
    IF s.current_input # <<>>
    THEN LET s1 == clear_input_line(
                       [s EXCEPT !.command_history = Append(@, s.current_input),
                                 !.current_completions = <<>>])
             input_copy == s1.current_input
             echoed == echo_input(s1, Prompt)
             s2 == IF failed(echoed) THEN echoed
                   ELSE render_input_line([echoed EXCEPT !.current_input = <<>>,
                                                         !.cursor_position = 0,
                                                         !.history_index = None])
         IN  [app |-> s2, should_exit |-> s2.should_exit, input |-> Some(input_copy)]
    ELSE LET s1 == render_input_line(
                       clear_input_line([s EXCEPT !.current_completions = <<>>]))
         IN  [app |-> s1, should_exit |-> s1.should_exit, input |-> None]

\* TerminalApp::handle_enter_key: the fields after it and the pair returned
handle_enter_key(s) ==
    IF trim(s.current_input) # <<>>
    THEN LET s1 == clear_input_line(
                       [s EXCEPT !.command_history = Append(@, s.current_input),
                                 !.current_completions = <<>>])
             input_copy == s1.current_input
             echoed == echo_input(s1, Prompt)
             s2 == IF failed(echoed) THEN echoed
                   ELSE render_input_line([echoed EXCEPT !.current_input = <<>>,
                                                         !.cursor_position = 0,
                                                         !.history_index = None])
         IN  [app |-> s2, should_exit |-> s2.should_exit, input |-> Some(input_copy)]
    ELSE LET s1 == render_input_line(
                       clear_input_line([s EXCEPT !.current_completions = <<>>]))
         IN  [app |-> s1, should_exit |-> s1.should_exit, input |-> None]

\* the buffer replacement of both branches of handle_tab_key
apply_completion(s, text) ==
    update_completions([s EXCEPT !.current_input = text,
                                 !.cursor_position = Len(text)])

\* handle_tab_key taking the first candidate whatever the selection
handle_tab_key_first(s) ==
    IF s.current_completions # <<>>
    THEN apply_completion(s, s.current_completions[1].full_text)
    ELSE IF IsSome(s.tab_tree)
         THEN LET complete(s1, completion) ==
                      IF IsSome(completion)
                      THEN apply_completion(s1, Unwrap(completion))
                      ELSE s1
                  best(r) == complete([s EXCEPT !.tab_tree = Some(r.tree)], r.result)
              IN  best(get_best_match(Unwrap(s.tab_tree), s.current_input))
         ELSE s

\* TerminalApp::handle_tab_key
handle_tab_key(s) ==
    IF /\ s.current_completions # <<>>
       /\ s.selected_completion_index < Len(s.current_completions)
    THEN apply_completion(s,
             s.current_completions[s.selected_completion_index + 1].full_text)
    ELSE IF IsSome(s.tab_tree)
         THEN LET complete(s1, completion) ==
                      IF IsSome(completion)
                      THEN apply_completion(s1, Unwrap(completion))
                      ELSE s1
                  best(r) == complete([s EXCEPT !.tab_tree = Some(r.tree)], r.result)
              IN  best(get_best_match(Unwrap(s.tab_tree), s.current_input))
         ELSE s

----------------------------------------------------------------------------
(* Events.  An Event is a record: key says whether it is Event::Key, and   *)
(* code, modifiers and kind are the fields of its KeyEvent.                *)

KeyEvent(code, modifiers, kind) ==
    [key |-> TRUE, code |-> code, modifiers |-> modifiers, kind |-> kind]

Press(code, modifiers) == KeyEvent(code, modifiers, "Press")

Char(c) == <<"Char", c>>

CtrlC == Press(Char("c"), "CONTROL")
CtrlD == Press(Char("d"), "CONTROL")

\* an event that is not a key event (Event::Resize)
Resize == [key |-> FALSE, code |-> <<"Resize">>, modifiers |-> "NONE", kind |-> "Press"]

\* is_control_key of process_event
is_control_key(key_event) ==
    \/ key_event.code = Char("c") /\ key_event.modifiers = "CONTROL"
    \/ key_event.code = Char("d") /\ key_event.modifiers = "CONTROL"

\* the comparison of process_event with self.last_key_event
same_as_last(s, key_event) ==
    /\ IsSome(s.last_key_event)
    /\ Unwrap(s.last_key_event).code = key_event.code
    /\ Unwrap(s.last_key_event).modifiers = key_event.modifiers
    /\ Unwrap(s.last_key_event).kind = key_event.kind

\* debounced without the exemption of the interrupt keys
debounced_every_key(s, event) ==
    /\ event.key
    /\ \/ event.kind = "Release"
       \/ same_as_last(s, event)

\* the first block of process_event says to return at once
debounced(s, event) ==
    /\ event.key
    /\ \/ event.kind = "Release"
       \/ same_as_last(s, event) /\ ~is_control_key(event)

\* the match that ends the first block of process_event
remember_key(s, event) ==
    IF event.key /\ is_control_key(event)
    THEN [s EXCEPT !.last_key_event = Some(event)]
    ELSE s

\* the KeyCode::Left arm of process_event
handle_left(s, modifiers) ==
    IF modifiers = "ALT"
    THEN IF s.current_completions # <<>> /\ s.selected_completion_index > 0
         THEN render_input_line([s EXCEPT !.selected_completion_index = @ - 1])
         ELSE s
    ELSE IF s.cursor_position > 0
         THEN render_input_line([s EXCEPT !.cursor_position = @ - 1])
         ELSE s

\* the KeyCode::Right arm moving the selection while it is on a candidate,
\* the last one included
handle_right_past_end(s, modifiers) ==
    IF modifiers = "ALT"
    THEN IF /\ s.current_completions # <<>>
            /\ s.selected_completion_index < Len(s.current_completions)
         THEN render_input_line([s EXCEPT !.selected_completion_index = @ + 1])
         ELSE s
    ELSE IF s.cursor_position < Len(s.current_input)
         THEN render_input_line([s EXCEPT !.cursor_position = @ + 1])
         ELSE s

\* the KeyCode::Right arm of process_event
handle_right(s, modifiers) ==
    IF modifiers = "ALT"
    THEN IF /\ s.current_completions # <<>>
            /\ s.selected_completion_index < Len(s.current_completions) - 1
         THEN render_input_line([s EXCEPT !.selected_completion_index = @ + 1])
         ELSE s
    ELSE IF s.cursor_position < Len(s.current_input)
         THEN render_input_line([s EXCEPT !.cursor_position = @ + 1])
         ELSE s

\* the Backspace arm forgetting the last Ctrl+C
handle_backspace_resets_timer(s) ==
    IF s.cursor_position > 0
    THEN render_input_line(update_completions(
             [remove_char_at(s, s.cursor_position - 1)
                 EXCEPT !.cursor_position = @ - 1, !.last_ctrl_c = None]))
    ELSE [s EXCEPT !.last_ctrl_c = None]

\* the KeyCode::Backspace arm of process_event
handle_backspace(s) ==
    IF s.cursor_position > 0
    THEN render_input_line(update_completions(
             [remove_char_at(s, s.cursor_position - 1)
                 EXCEPT !.cursor_position = @ - 1]))
    ELSE s

\* the second block of process_event: the match on the key code.  logged is
\* the line given to print_log_entry, if any.
dispatch_key(s, event, t) ==
    LET code == event.code
        modifiers == event.modifiers
        plain(app) == [app |-> app, quit |-> FALSE, logged |-> None]
        ctrl_d(r) == [app |-> r.app, quit |-> r.quit, logged |-> None]
        ctrl_c(r) == [app |-> print_log_entry(r.app, r.message), quit |-> r.quit,
                      logged |-> Some(r.message)]
        enter(r) == [app |-> r.app, quit |-> r.should_exit, logged |-> None]
    IN  IF ~event.key THEN plain(s)
        ELSE IF code = Char("d") /\ modifiers = "CONTROL"
        THEN ctrl_d(handle_ctrl_d(s))
        ELSE IF code = Char("c") /\ modifiers = "CONTROL"
        THEN ctrl_c(handle_ctrl_c(s, t))
        ELSE IF code = <<"Up">> THEN plain(render_input_line(handle_up_key(s)))
        ELSE IF code = <<"Down">> THEN plain(render_input_line(handle_down_key(s)))
        ELSE IF code = <<"Left">> THEN plain(handle_left(s, modifiers))
        ELSE IF code = <<"Right">> THEN plain(handle_right(s, modifiers))
        ELSE IF code = <<"Tab">> THEN plain(render_input_line(handle_tab_key(s)))
        ELSE IF code = <<"Enter">> THEN enter(handle_enter_key(s))
        ELSE IF code[1] = "Char"
        THEN plain(render_input_line(update_completions(
                       handle_char_input(s, code[2]))))
        ELSE IF code = <<"Backspace">> THEN plain(handle_backspace(s))
        ELSE plain(s)

\* TerminalApp::process_event, called when the clock reads t
process_event(s, event, t) ==
    LET returned(r) == IF failed(r.app) THEN [r EXCEPT !.quit = FALSE] ELSE r
    IN  IF debounced(s, event)
        THEN [app |-> s, quit |-> FALSE, logged |-> None]
        ELSE returned(dispatch_key(remember_key(s, event), event, t))

\* read_input returning None after a submit of a blank buffer
read_input_event_ends_on_blank(s, event, t) ==
    LET entered(r) ==
            IF r.should_exit
            THEN [app |-> r.app, quit |-> TRUE, line |-> None, logged |-> None]
            ELSE IF IsSome(r.input)
            THEN [app |-> r.app, quit |-> FALSE, line |-> r.input,
                  logged |-> None]
            ELSE [app |-> r.app, quit |-> TRUE, line |-> None, logged |-> None]
        processed(r) ==
            IF r.quit
            THEN [app |-> r.app, quit |-> TRUE, line |-> None,
                  logged |-> r.logged]
            ELSE [app |-> r.app, quit |-> r.app.should_exit, line |-> None,
                  logged |-> r.logged]
        returned(r) ==
            IF failed(r.app) THEN [r EXCEPT !.quit = FALSE, !.line = None] ELSE r
    IN  returned(IF event.key /\ event.code = <<"Enter">>
                 THEN entered(handle_enter_key(s))
                 ELSE processed(process_event(s, event, t)))

\* One iteration of the loop of TerminalApp::read_input in which the driver
\* delivers an event.  quit: read_input returns None in this iteration;
\* line: the line it returns otherwise; with neither, the loop goes on.
read_input_event(s, event, t) ==
    LET entered(r) ==
            IF r.should_exit
            THEN [app |-> r.app, quit |-> TRUE, line |-> None, logged |-> None]
            ELSE IF IsSome(r.input)
            THEN [app |-> r.app, quit |-> FALSE, line |-> r.input,
                  logged |-> None]
            ELSE [app |-> r.app, quit |-> r.app.should_exit, line |-> None,
                  logged |-> None]
        processed(r) ==
            IF r.quit
            THEN [app |-> r.app, quit |-> TRUE, line |-> None,
                  logged |-> r.logged]
            ELSE [app |-> r.app, quit |-> r.app.should_exit, line |-> None,
                  logged |-> r.logged]
        returned(r) ==
            IF failed(r.app) THEN [r EXCEPT !.quit = FALSE, !.line = None] ELSE r
    IN  returned(IF event.key /\ event.code = <<"Enter">>
                 THEN entered(handle_enter_key(s))
                 ELSE processed(process_event(s, event, t)))

\* an iteration without an event that does not look at should_exit
read_input_idle_goes_on(s) ==
    [app |-> s, quit |-> FALSE, line |-> None, logged |-> None]

\* One iteration of the loop of read_input in which poll finds no event
read_input_idle(s) ==
    [app |-> s, quit |-> s.should_exit,
     line |-> None, logged |-> None]

----------------------------------------------------------------------------
(* The session: the host's calls and the driver's events *)

\* A session is explored within one of these scopes, chosen at its start.
\* Each lets one of the bounds grow: the lines submitted, the length typed,
\* the time that passes, the completions registered.  len is the longest
\* buffer typed, hist the most lines submitted, time where the clock stops
\* and items the most completion items registered.
Scopes ==
    {[len |-> 2, hist |-> MaxHist, time |-> 0, items |-> 0],
     [len |-> MaxLen, hist |-> 1, time |-> 0, items |-> 0],
     [len |-> 1, hist |-> 1, time |-> MaxTime, items |-> 0],
     [len |-> 2, hist |-> 0, time |-> 0, items |-> MaxItems]}

\* the times that pass between two events, in ms: just under the
\* confirmation window of handle_ctrl_c, and exactly the window
TickSteps == {ExitWindow * 1000 - 1, ExitWindow * 1000}

\* the characters the user types
Chars == {"a", " "}

\* the events the driver delivers
KeyEvents ==
    {Press(Char(c), "NONE") : c \in Chars}
    \cup {Press(<<k>>, "NONE") :
             k \in {"Up", "Down", "Left", "Right", "Tab", "Enter", "Backspace", "Esc"}}
    \cup {Press(<<"Left">>, "ALT"), Press(<<"Right">>, "ALT"), CtrlC, CtrlD}
    \cup {KeyEvent(Char("a"), "NONE", "Release"),
          KeyEvent(<<"Enter">>, "NONE", "Release"), Resize}

\* the contexts and completion lists the host registers
Contexts == {<<>>, <<"a">>}
Completions == {<< <<"a">> >>, << <<"a">>, <<"a", "a">> >>}

\* the number of completion items in the subtree of a node
RECURSIVE item_count(_)
RECURSIVE item_count_children(_, _)
item_count(node) == Len(node.completions) + item_count_children(node.children, 1)
item_count_children(children, i) ==
    IF i > Len(children) THEN 0
    ELSE item_count(children[i]) + item_count_children(children, i + 1)

\* the bounds leave room for the event
EventInBounds(event) ==
    /\ (event.key /\ event.kind # "Release" /\ event.code[1] = "Char"
            /\ event.modifiers # "CONTROL")
          => Len(current_input) < scope.len
    /\ (event.key /\ event.code = <<"Enter">> /\ trim(current_input) # <<>>)
          => Len(command_history) < scope.hist

\* the bounds leave room for n more completion items
ItemsInBounds(n) ==
    /\ IsSome(tab_tree)
    /\ item_count(Unwrap(tab_tree).root) + n <= scope.items

\* the variables take the fields of the record s
SetApp(s) ==
    /\ command_history' = s.command_history
    /\ current_input' = s.current_input
    /\ history_index' = s.history_index
    /\ last_ctrl_c' = s.last_ctrl_c
    /\ cursor_position' = s.cursor_position
    /\ should_exit' = s.should_exit
    /\ last_key_event' = s.last_key_event
    /\ tab_tree' = s.tab_tree
    /\ current_completions' = s.current_completions
    /\ hints_rendered' = s.hints_rendered
    /\ selected_completion_index' = s.selected_completion_index
    /\ stdout_handle' = s.stdout_handle

Init ==
    /\ command_history = TerminalApp_new.command_history
    /\ current_input = TerminalApp_new.current_input
    /\ history_index = TerminalApp_new.history_index
    /\ last_ctrl_c = TerminalApp_new.last_ctrl_c
    /\ cursor_position = TerminalApp_new.cursor_position
    /\ should_exit = TerminalApp_new.should_exit
    /\ last_key_event = TerminalApp_new.last_key_event
    /\ tab_tree = TerminalApp_new.tab_tree
    /\ current_completions = TerminalApp_new.current_completions
    /\ hints_rendered = TerminalApp_new.hints_rendered
    /\ selected_completion_index = TerminalApp_new.selected_completion_index
    /\ stdout_handle = TerminalApp_new.stdout_handle
    /\ now = 0
    /\ ret = [quit |-> FALSE, line |-> None, logged |-> None]
    /\ scope \in Scopes

\* the host calls process_event with an event
ProcessEvent(event) ==
    /\ EventInBounds(event)
    /\ LET returns(r) ==
               /\ SetApp(r.app)
               /\ ret' = [quit |-> r.quit, line |-> None, logged |-> r.logged]
       IN  returns(process_event(St, event, now))
    /\ UNCHANGED <<now, scope>>

\* an iteration of read_input's loop in which the driver delivers an event
ReadInputEvent(event) ==
    /\ EventInBounds(event)
    /\ LET returns(r) ==
               /\ SetApp(r.app)
               /\ ret' = [quit |-> r.quit, line |-> r.line, logged |-> r.logged]
       IN  returns(read_input_event(St, event, now))
    /\ UNCHANGED <<now, scope>>

\* an iteration of read_input's loop in which there is no event
ReadInputIdle ==
    /\ LET returns(r) ==
               /\ SetApp(r.app)
               /\ ret' = [quit |-> r.quit, line |-> r.line, logged |-> r.logged]
       IN  returns(read_input_idle(St))
    /\ UNCHANGED <<now, scope>>

\* time passes on the clock
Tick(dt) ==
    /\ now + dt <= scope.time
    /\ now' = now + dt
    /\ UNCHANGED <<command_history, current_input, history_index, last_ctrl_c,
                   cursor_position, should_exit, last_key_event, tab_tree,
                   current_completions, hints_rendered,
                   selected_completion_index, stdout_handle, ret, scope>>

\* the host sets the public field should_exit
SetShouldExit ==
    /\ ~should_exit
    /\ should_exit' = TRUE
    /\ UNCHANGED <<command_history, current_input, history_index, last_ctrl_c,
                   cursor_position, last_key_event, tab_tree,
                   current_completions, hints_rendered,
                   selected_completion_index, stdout_handle, now, ret,
                   scope>>

\* the host calls enable_tab_completion
EnableTabCompletion ==
    /\ tab_tree = None
    /\ scope.items > 0
    /\ SetApp(enable_tab_completion(St))
    /\ UNCHANGED <<now, ret, scope>>

\* the host calls register_tab_completions
RegisterTabCompletions(context, completions) ==
    /\ ItemsInBounds(Len(completions))
    /\ SetApp(register_tab_completions(St, context, completions))
    /\ UNCHANGED <<now, ret, scope>>

\* the host calls register_tab_completions_with_desc
RegisterTabCompletionsWithDesc(context, items) ==
    /\ ItemsInBounds(Len(items))
    /\ SetApp(register_tab_completions_with_desc(St, context, items))
    /\ UNCHANGED <<now, ret, scope>>

\* the host calls add_tab_completion
AddTabCompletion(context, text, description) ==
    /\ ItemsInBounds(1)
    /\ SetApp(add_tab_completion(St, context, text, description))
    /\ UNCHANGED <<now, ret, scope>>

\* the host logs a line (info, warn, ...: logger ends in print_log_entry)
Log ==
    /\ SetApp(print_log_entry(St, "log"))
    /\ UNCHANGED <<now, ret, scope>>

Next ==
    \/ \E event \in KeyEvents : ProcessEvent(event)
    \/ \E event \in KeyEvents : ReadInputEvent(event)
    \/ ReadInputIdle
    \/ \E dt \in TickSteps : Tick(dt)
    \/ SetShouldExit
    \/ EnableTabCompletion
    \/ \E context \in Contexts, completions \in Completions :
           RegisterTabCompletions(context, completions)
    \/ RegisterTabCompletionsWithDesc(<<"a">>, << <<<<"a">>, "desc">> >>)
    \/ AddTabCompletion(<<>>, <<"a", "a">>, None)
    \/ Log

Spec == Init /\ [][Next]_vars

----------------------------------------------------------------------------
(* The completion engine driven directly.  tab is a public module, so a    *)
(* host can hold a TabTree of its own and call every method of it,         *)
(* register_completions_advanced with priorities and strategies included.  *)
(* In TabSpec the engine is in tab_tree, ret is the last query and its     *)
(* result, and the editor's fields stay as TerminalApp::new leaves them.   *)

\* the characters of the inputs, contexts and item texts
TabChars == {"a", "b", " "}

\* every string of at most n characters
Strings(n) == UNION {[1..k -> TabChars] : k \in 0..n}

\* every input the engine's answers are examined for
Inputs == Strings(MaxInput)

\* the inputs the host queries
QueryInputs == {<<>>, <<"a">>, <<"a", "b">>, <<"a", " ", "b">>}

\* the contexts the host registers under
TabContexts == {<<>>, <<"a">>, <<"a", "b">>}

\* the item texts and the items, with their priorities
TabTexts == {<<"a">>, <<"a", "b">>, <<"b">>}
TabItems == {with_priority(CompletionItem_new(text), priority) :
                 text \in TabTexts, priority \in {0, 1}}

\* the item lists given to register_completions_advanced
TabItemLists ==
    {<<item>> : item \in TabItems}
    \cup {<<with_priority(CompletionItem_new(<<"a">>), 0),
            with_priority(CompletionItem_new(<<"a", "b">>), priority)>> :
              priority \in {0, 1}}

Strategies == {"All", "Prefix", "Contains"}

\* the engine of the state
Tree == Unwrap(tab_tree)

\* the editor's fields are left alone
EditorUnchanged ==
    UNCHANGED <<command_history, current_input, history_index, last_ctrl_c,
                cursor_position, should_exit, last_key_event,
                current_completions, hints_rendered,
                selected_completion_index, stdout_handle, now, scope>>

\* A run of TabSpec is explored within one of these scopes, chosen at its
\* start: the first has every context, item and strategy and at most two
\* items; each of the others lets the number of items grow to MaxItems and
\* keeps to one context, one item or one strategy.
TabScopes ==
    {[contexts |-> TabContexts, items |-> TabItems, strategies |-> Strategies,
      cap |-> 2],
     [contexts |-> TabContexts, items |-> {CompletionItem_new(<<"a">>)},
      strategies |-> {"Prefix"}, cap |-> MaxItems],
     [contexts |-> {<<"a">>}, items |-> TabItems, strategies |-> {"Prefix"},
      cap |-> MaxItems],
     [contexts |-> {<<>>}, items |-> {CompletionItem_new(text) : text \in TabTexts},
      strategies |-> Strategies, cap |-> MaxItems]}

\* the scope has the registration of the items under the context
TabRoom(context, items, strategy) ==
    /\ context \in scope.contexts
    /\ \A i \in 1..Len(items) : items[i] \in scope.items
    /\ strategy \in scope.strategies
    /\ item_count(Tree.root) + Len(items) <= scope.cap

TabInit ==
    /\ command_history = TerminalApp_new.command_history
    /\ current_input = TerminalApp_new.current_input
    /\ history_index = TerminalApp_new.history_index
    /\ last_ctrl_c = TerminalApp_new.last_ctrl_c
    /\ cursor_position = TerminalApp_new.cursor_position
    /\ should_exit = TerminalApp_new.should_exit
    /\ last_key_event = TerminalApp_new.last_key_event
    /\ tab_tree = Some(TabTree_new)
    /\ current_completions = TerminalApp_new.current_completions
    /\ hints_rendered = TerminalApp_new.hints_rendered
    /\ selected_completion_index = TerminalApp_new.selected_completion_index
    /\ stdout_handle = TerminalApp_new.stdout_handle
    /\ now = 0
    /\ ret = [call |-> "new", input |-> <<>>, result |-> <<>>]
    /\ scope \in TabScopes

\* the host calls TabTree::register_completions_advanced
TabRegisterAdvanced(context, items, strategy) ==
    /\ TabRoom(context, items, strategy)
    /\ tab_tree' = Some(register_completions_advanced(Tree, context, items, strategy))
    /\ ret' = [call |-> "register", input |-> context, result |-> <<>>]
    /\ EditorUnchanged

\* the host calls TabTree::register_completions
TabRegister(context, completions) ==
    /\ TabRoom(context, [i \in 1..Len(completions) |->
                              CompletionItem_new(completions[i])], DefaultStrategy)
    /\ tab_tree' = Some(register_completions(Tree, context, completions))
    /\ ret' = [call |-> "register", input |-> context, result |-> <<>>]
    /\ EditorUnchanged

\* the host calls TabTree::register_completions_with_desc
TabRegisterWithDesc(context, items) ==
    /\ TabRoom(context, [i \in 1..Len(items) |-> CompletionItem_new(items[i][1])],
               DefaultStrategy)
    /\ tab_tree' = Some(register_completions_with_desc(Tree, context, items))
    /\ ret' = [call |-> "register", input |-> context, result |-> <<>>]
    /\ EditorUnchanged

\* the host calls TabTree::add_completion
TabAddCompletion(context, text, description) ==
    /\ TabRoom(context, <<CompletionItem_new(text)>>, DefaultStrategy)
    /\ tab_tree' = Some(add_completion(Tree, context, text, description))
    /\ ret' = [call |-> "register", input |-> context, result |-> <<>>]
    /\ EditorUnchanged

\* the host calls TabTree::get_candidates
TabGetCandidates(input) ==
    /\ LET returns(r) ==
               /\ tab_tree' = Some(r.tree)
               /\ ret' = [call |-> "get_candidates", input |-> input,
                          result |-> r.result]
       IN  returns(get_candidates(Tree, input))
    /\ EditorUnchanged

\* the host calls TabTree::get_best_match
TabGetBestMatch(input) ==
    /\ LET returns(r) ==
               /\ tab_tree' = Some(r.tree)
               /\ ret' = [call |-> "get_best_match", input |-> input,
                          result |-> r.result]
       IN  returns(get_best_match(Tree, input))
    /\ EditorUnchanged

\* the host calls TabTree::clear_cache
TabClearCache ==
    /\ tab_tree' = Some(clear_cache(Tree))
    /\ ret' = [call |-> "clear_cache", input |-> <<>>, result |-> <<>>]
    /\ EditorUnchanged

TabNext ==
    \/ \E context \in TabContexts, items \in TabItemLists, strategy \in Strategies :
           TabRegisterAdvanced(context, items, strategy)
    \/ \E context \in TabContexts : TabRegister(context, << <<"b">> >>)
    \/ \E context \in TabContexts :
           TabRegisterWithDesc(context, << <<<<"a">>, "desc">> >>)
    \/ \E context \in TabContexts : TabAddCompletion(context, <<"a", "b">>, Some("desc"))
    \/ \E input \in QueryInputs : TabGetCandidates(input)
    \/ \E input \in QueryInputs : TabGetBestMatch(input)
    \/ TabClearCache

TabSpec == TabInit /\ [][TabNext]_vars

----------------------------------------------------------------------------
(* The claims.  A claim about what a handler does is stated of the         *)
(* handler applied in every reachable state.                               *)

UpKey == Press(<<"Up">>, "NONE")
DownKey == Press(<<"Down">>, "NONE")
EnterKey == Press(<<"Enter">>, "NONE")

\* C1: after any sequence of key events the cursor position lies between 0
\* and the number of characters in the buffer.
C1_CursorInBounds ==
    /\ 0 <= cursor_position
    /\ cursor_position <= Len(current_input)

\* a buffer of the longest typed length, with the cursor moved back into it
C1_Witness ==
    /\ Len(current_input) = MaxLen
    /\ cursor_position = 1
    /\ current_input[1] = " "

\* C2: the second of two consecutive identical presses of a key that is not
\* an interrupt key is dropped: buffer, cursor, history and candidates are
\* as the first press left them.
C2_SecondPressDropped ==
    \A event \in KeyEvents :
        (event.key /\ event.kind = "Press" /\ ~is_control_key(event)) =>
            LET first  == process_event(St, event, now).app
                second == process_event(first, event, now).app
            IN  /\ second.current_input = first.current_input
                /\ second.cursor_position = first.cursor_position
                /\ second.command_history = first.command_history
                /\ second.current_completions = first.current_completions

\* C3: of two consecutive identical interrupt-key events both are processed:
\* the first is remembered as the last key event, and the second still runs
\* its handler, so that a second Ctrl+C at once exits and logs the exit
\* message, and a second Ctrl+D exits.  In any state whose last key event is
\* that interrupt key, process_event gives what the handler gives.
C3_InterruptNeverDropped ==
    /\ \A event \in {CtrlC, CtrlD} :
           LET first  == process_event(St, event, now)
               second == process_event(first.app, event, now)
           IN  /\ same_as_last(first.app, event)
               /\ second.quit
               /\ event = CtrlC => second.logged = Some(MsgExiting)
    /\ same_as_last(St, CtrlC) =>
           LET r == process_event(St, CtrlC, now)
               h == handle_ctrl_c(St, now)
           IN  r.quit = h.quit /\ r.logged = Some(h.message)
    /\ same_as_last(St, CtrlD) => process_event(St, CtrlD, now).quit

\* a second Ctrl+C in a row was processed: it exited
C3_Witness ==
    /\ last_key_event = Some(CtrlC)
    /\ ret.quit
    /\ ret.logged = Some(MsgExiting)
    /\ last_ctrl_c = Some(now)

\* C4: Ctrl+C with an empty buffer: with no timer armed it does not exit and
\* arms the timer to now; with the timer armed less than 5 s ago it exits;
\* with the timer armed 5 s ago or more it does not exit and arms the timer
\* to now.
C4_CtrlCEmptyBuffer ==
    current_input = <<>> =>
        LET r == process_event(St, CtrlC, now)
        IN  /\ last_ctrl_c = None =>
                   ~r.quit /\ r.app.last_ctrl_c = Some(now)
            /\ (IsSome(last_ctrl_c) /\ now - Unwrap(last_ctrl_c) < ExitWindow * 1000) =>
                   r.quit
            /\ (IsSome(last_ctrl_c) /\ now - Unwrap(last_ctrl_c) >= ExitWindow * 1000) =>
                   ~r.quit /\ r.app.last_ctrl_c = Some(now)

\* Ctrl+C exited on a timer armed 4.999 s before
C4_Witness ==
    /\ ret.quit
    /\ ret.logged = Some(MsgExiting)
    /\ IsSome(last_ctrl_c)
    /\ now - Unwrap(last_ctrl_c) = ExitWindow * 1000 - 1

\* C5: Ctrl+C with a non-empty buffer does not exit, whatever the timer: it
\* empties the buffer, sets the cursor to 0, empties the candidate list and
\* arms the timer to now.
C5_CtrlCClearsInput ==
    current_input # <<>> =>
        LET r == process_event(St, CtrlC, now)
        IN  /\ ~r.quit
            /\ r.app.current_input = <<>>
            /\ r.app.cursor_position = 0
            /\ r.app.current_completions = <<>>
            /\ r.app.last_ctrl_c = Some(now)

\* Ctrl+C cleared a buffer, after the timer's window had passed
C5_Witness ==
    /\ ret.logged = Some(MsgCleared)
    /\ ~ret.quit
    /\ current_input = <<>>
    /\ cursor_position = 0
    /\ current_completions = <<>>
    /\ last_ctrl_c = Some(now)
    /\ now = ExitWindow * 1000

\* C6: Ctrl+D signals the end of the session in every state, to the caller
\* of process_event and to the caller of read_input, and leaves the buffer
\* empty, the cursor at 0 and the candidate list empty.
C6_CtrlDAlwaysExits ==
    LET r == process_event(St, CtrlD, now)
    IN  /\ r.quit
        /\ read_input_event(St, CtrlD, now).quit
        /\ r.app.current_input = <<>>
        /\ r.app.cursor_position = 0
        /\ r.app.current_completions = <<>>

\* Ctrl+D ended a session whose timer was armed and whose last key event
\* was already Ctrl+D
C6_Witness ==
    /\ ret.quit
    /\ ret.logged = None
    /\ ~should_exit
    /\ last_key_event = Some(CtrlD)
    /\ IsSome(last_ctrl_c)
    /\ current_input = <<>>
    /\ command_history # <<>>

\* history entry j (counted from 0) is loaded in the fields s
Loaded(s, j) ==
    /\ s.history_index = Some(j)
    /\ s.current_input = command_history[j + 1]
    /\ s.cursor_position = Len(command_history[j + 1])

\* the fields after k presses of Up in a row, from the fields s
RECURSIVE UpTimes(_, _)
UpTimes(s, k) ==
    IF k = 0 THEN s ELSE UpTimes(process_event(s, UpKey, now).app, k - 1)

\* C7: History Up changes nothing with an empty history; loads the most
\* recent entry when not browsing; loads entry i-1 when browsing at i > 0;
\* changes nothing at index 0.  A load sets the buffer to the entry and the
\* cursor to its end.  With n lines submitted and no browsing, k >= 1
\* presses of Up in a row leave the buffer equal to entry max(n-k, 0).
C7_HistoryUp ==
    LET n == Len(command_history)
        r == handle_up_key(St)
    IN  /\ n = 0 => r = St
        /\ (n > 0 /\ history_index = None) => Loaded(r, n - 1)
        /\ (n > 0 /\ IsSome(history_index) /\ Unwrap(history_index) > 0) =>
               Loaded(r, Unwrap(history_index) - 1)
        /\ (n > 0 /\ history_index = Some(0)) => r = St
        /\ (n > 0 /\ history_index = None) =>
               \A k \in 1..(n + 1) :
                   UpTimes(St, k).current_input = command_history[Max(n - k, 0) + 1]

\* the oldest of two different lines is loaded, the cursor at its end
C7_Witness ==
    /\ Len(command_history) = 2
    /\ command_history[1] # command_history[2]
    /\ history_index = Some(0)
    /\ current_input = command_history[1]
    /\ cursor_position = Len(current_input)

\* C8: History Down changes nothing when not browsing; loads the next entry
\* when browsing below the last index; at the last index it stops browsing:
\* the buffer is empty, the cursor 0 and history_index None.
C8_HistoryDown ==
    LET n == Len(command_history)
        r == handle_down_key(St)
    IN  /\ history_index = None => r = St
        /\ (IsSome(history_index) /\ Unwrap(history_index) < n - 1) =>
               Loaded(r, Unwrap(history_index) + 1)
        /\ (IsSome(history_index) /\ Unwrap(history_index) >= n - 1) =>
               /\ r.history_index = None
               /\ r.current_input = <<>>
               /\ r.cursor_position = 0

\* browsing at the last of two lines, where Down stops the browsing
C8_Witness ==
    /\ Len(command_history) = 2
    /\ history_index = Some(1)
    /\ current_input = command_history[2]
    /\ process_event(St, DownKey, now).app.history_index = None
    /\ process_event(St, DownKey, now).app.current_input = <<>>

\* C9: submit of a buffer that is not blank appends the raw buffer as the
\* last history entry, returns that raw text, to the caller of
\* handle_enter_key and by read_input, and leaves the buffer empty, the
\* cursor at 0, history_index None and the candidate list empty.
C9_SubmitNonBlank ==
    trim(current_input) # <<>> =>
        LET r == handle_enter_key(St)
            l == read_input_event(St, EnterKey, now)
        IN  /\ r.app.command_history = Append(command_history, current_input)
            /\ r.input = Some(current_input)
            /\ ~should_exit => l.line = Some(current_input)
            /\ l.app = r.app
            /\ r.app.current_input = <<>>
            /\ r.app.cursor_position = 0
            /\ r.app.history_index = None
            /\ r.app.current_completions = <<>>

\* read_input returned a line with a space at its end, now the last entry
C9_Witness ==
    /\ IsSome(ret.line)
    /\ Unwrap(ret.line) = command_history[Len(command_history)]
    /\ trim(Unwrap(ret.line)) # Unwrap(ret.line)
    /\ current_input = <<>>
    /\ cursor_position = 0
    /\ history_index = None

\* C10: submit of a blank buffer (empty or whitespace only) returns no text
\* and leaves history, buffer, cursor and history_index as they were; the
\* candidate list is emptied.
C10_SubmitBlank ==
    trim(current_input) = <<>> =>
        LET r == handle_enter_key(St)
            l == read_input_event(St, EnterKey, now)
        IN  /\ r.input = None
            /\ l.line = None
            /\ l.app = r.app
            /\ r.app.command_history = command_history
            /\ r.app.current_input = current_input
            /\ r.app.cursor_position = cursor_position
            /\ r.app.history_index = history_index
            /\ r.app.current_completions = <<>>
            /\ r.app.last_ctrl_c = last_ctrl_c
            /\ r.app.last_key_event = last_key_event
            /\ r.app.should_exit = should_exit
            /\ r.app.tab_tree = tab_tree

\* the candidates computed for the empty buffer were dropped from the
\* session, which goes on with the buffer empty
C10_Witness ==
    /\ current_input = <<>>
    /\ current_completions = <<>>
    /\ IsSome(tab_tree)
    /\ Unwrap(tab_tree).last_input = <<>>
    /\ Unwrap(tab_tree).current_candidates # <<>>
    /\ ~ret.quit
    /\ ret.line = None
    /\ ret.logged = None
    /\ last_key_event = None

\* C11: the history is append-only.  Every step leaves it unchanged or
\* appends one entry at its end, and a step that appends is a submit of a
\* buffer that is not blank: the appended entry is the buffer and the fields
\* after the step are those handle_enter_key gives.
C11_HistoryAppendOnly ==
    [][\/ command_history' = command_history
       \/ /\ trim(current_input) # <<>>
          /\ command_history' = Append(command_history, current_input)
          /\ St' = handle_enter_key(St).app]_vars

\* the oldest of two submitted lines was loaded and the buffer then edited:
\* the buffer differs from the entry, which is as it was submitted
C11_Witness ==
    /\ Len(command_history) = 2
    /\ history_index = Some(0)
    /\ current_input # command_history[1]
    /\ Len(current_input) > Len(command_history[1])

\* C18: selected_completion_index is a valid index into the candidate list,
\* and is 0 when the candidate list is empty.
C18_SelectedIndexValid ==
    IF current_completions = <<>>
    THEN selected_completion_index = 0
    ELSE selected_completion_index < Len(current_completions)

----------------------------------------------------------------------------
(* The claims about the completion engine, stated of TabSpec *)

\* every node of the tree, the root first
Nodes == search_order(Tree.root)

\* the trigger of a node as a string, empty for the root
TriggerOf(node) == IF IsSome(node.trigger) THEN Unwrap(node.trigger) ELSE <<>>

\* the remainder of an input for a node: the input with the trigger and then
\* leading whitespace stripped
Remainder(node, input) ==
    trim_start(SubSeq(input, Len(TriggerOf(node)) + 1, Len(input)))

\* the items a candidate list holds: text and description, in order
ItemsOf(candidates) ==
    [i \in 1..Len(candidates) |->
        <<candidates[i].completion, candidates[i].description>>]

\* the items among those of a node that Keep holds of, by priority
\* descending, ties in registration order
Ordered(items, Keep(_)) ==
    LET kept == {i \in 1..Len(items) : Keep(items[i])}
        rank(i) == 1 + Cardinality({j \in kept :
                           \/ items[j].priority > items[i].priority
                           \/ items[j].priority = items[i].priority /\ j < i})
        at(k) == CHOOSE i \in kept : rank(i) = k
    IN  [k \in 1..Cardinality(kept) |->
            <<items[at(k)].text, items[at(k)].description>>]

\* C12: for a node with strategy Prefix and an input that dispatches to it
\* with a non-empty remainder r, get_candidates returns exactly the items of
\* the node whose text starts with r, by priority descending, ties in
\* registration order.
C12_PrefixFilter ==
    \A input \in Inputs :
        LET node == find_deepest_match(Tree, input)
            r == Remainder(node, input)
            Keep(item) == starts_with(item.text, r)
        IN  (node.match_strategy = "Prefix" /\ r # <<>>) =>
                ItemsOf(get_candidates(Tree, input).result)
                    = Ordered(node.completions, Keep)

\* C13: with strategy Prefix and an empty remainder, get_candidates returns
\* all the items of the selected node, for every input and engine state.
C13_EmptyRemainderKeepsAll ==
    \A input \in Inputs :
        LET node == find_deepest_match(Tree, input)
            Keep(item) == TRUE
        IN  (node.match_strategy = "Prefix" /\ Remainder(node, input) = <<>>) =>
                ItemsOf(get_candidates(Tree, input).result)
                    = Ordered(node.completions, Keep)

\* C14: two consecutive calls of get_candidates with the same input, with no
\* registration in between, return equal lists; the second leaves the engine
\* as the first left it.
C14_GetCandidatesIdempotent ==
    \A input \in QueryInputs :
        LET same(first, second) == /\ second.result = first.result
                                   /\ second.tree = first.tree
            again(first) == same(first, get_candidates(first.tree, input))
        IN  again(get_candidates(Tree, input))

\* a query with a non-empty answer was made and is now in the cache: the
\* same query again is a second consecutive call
C14_Witness ==
    /\ ret.call = "get_candidates"
    /\ ret.input # <<>>
    /\ Len(ret.result) = 2
    /\ Tree.last_input = ret.input
    /\ Tree.current_candidates = ret.result

\* C15: the node an input dispatches to has the longest trigger that is a
\* prefix of the input, and is the root when no trigger is a prefix of it,
\* whatever the order of the nodes in the tree.
C15_LongestTrigger ==
    LET longest(nodes, input, node) ==
            LET prefixes == {i \in 1..Len(nodes) :
                                /\ IsSome(nodes[i].trigger)
                                /\ starts_with(input, Unwrap(nodes[i].trigger))}
            IN  IF prefixes = {} THEN node = Tree.root
                ELSE /\ \E i \in prefixes : node = nodes[i]
                     /\ \A i \in prefixes :
                            Len(TriggerOf(nodes[i])) <= Len(TriggerOf(node))
        all(nodes) == \A input \in Inputs :
                          longest(nodes, input, find_deepest_match(Tree, input))
    IN  all(Nodes)

\* the context "ab" was registered before its prefix "a", and the query "ab"
\* was answered from the node of "ab"
C15_Witness ==
    /\ Len(Tree.root.children) = 2
    /\ Tree.root.children[1].trigger = Some(<<"a", "b">>)
    /\ Tree.root.children[2].trigger = Some(<<"a">>)
    /\ Tree.root.children[2].completions # <<>>
    /\ ret.call = "get_candidates"
    /\ ret.input = <<"a", "b">>
    /\ ret.result # <<>>
    /\ starts_with(ret.result[1].full_text, <<"a", "b", " ">>)

\* C16: the tree has one root, with no trigger, every other node has a
\* trigger, and no two nodes have the same trigger.
C16_UniqueTriggers ==
    LET unique(nodes) ==
            /\ \A i \in 2..Len(nodes) : IsSome(nodes[i].trigger)
            /\ \A i, j \in 1..Len(nodes) :
                   i # j => nodes[i].trigger # nodes[j].trigger
    IN  Tree.root.trigger = None /\ unique(Nodes)

\* the context "a" was registered twice, by two different calls, and has
\* one node
C16_Witness ==
    /\ Len(Nodes) = 2
    /\ Nodes[2].trigger = Some(<<"a">>)
    /\ Len(Nodes[2].completions) = 2
    /\ IsSome(Nodes[2].completions[1].description)
    /\ Nodes[2].completions[2].priority = 1

\* the items registered under a context among the nodes of a tree, none if
\* it has no node
Registered(nodes, context) ==
    LET hits == {i \in 1..Len(nodes) : nodes[i].trigger = context_trigger(context)}
    IN  IF hits = {} THEN <<>> ELSE nodes[CHOOSE i \in hits : TRUE].completions

\* the strategy of the node of a context among the nodes of a tree
StrategyOf(nodes, context) ==
    nodes[CHOOSE i \in 1..Len(nodes) :
              nodes[i].trigger = context_trigger(context)].match_strategy

\* C17: a registration under a context leaves the node with the items it
\* had followed by the items of the call, and with the strategy of the call;
\* the items of the other contexts are as they were.
C17_RegistrationAccumulates ==
    LET accumulates(before, after, context, items, strategy) ==
            /\ Registered(after, context) = Registered(before, context) \o items
            /\ StrategyOf(after, context) = strategy
            /\ \A other \in TabContexts \ {context} :
                   Registered(after, other) = Registered(before, other)
        all(before) ==
            \A context \in TabContexts, items \in TabItemLists,
               strategy \in Strategies :
                accumulates(before,
                            search_order(register_completions_advanced(
                                Tree, context, items, strategy).root),
                            context, items, strategy)
    IN  all(Nodes)

\* a second registration under "a" added its item after the first call's
\* and changed the strategy of the node
C17_Witness ==
    /\ Len(Nodes) = 2
    /\ Nodes[2].trigger = Some(<<"a">>)
    /\ Len(Nodes[2].completions) = 2
    /\ IsSome(Nodes[2].completions[1].description)
    /\ Nodes[2].completions[2].description = None
    /\ Nodes[2].match_strategy = "Contains"

\* C26: for a node with strategy Contains, get_candidates keeps exactly the
\* items whose text contains the last whitespace-delimited token of the
\* whole input; for a node with strategy All it keeps every item, whatever
\* the input.
C26_ContainsAndAll ==
    \A input \in Inputs :
        LET node == find_deepest_match(Tree, input)
            token == split_whitespace_last(input)
            HasToken(item) == contains(item.text, token)
            Every(item) == TRUE
            kept == ItemsOf(get_candidates(Tree, input).result)
        IN  /\ node.match_strategy = "Contains" =>
                   kept = Ordered(node.completions, HasToken)
            /\ node.match_strategy = "All" =>
                   kept = Ordered(node.completions, Every)

\* C27: every candidate get_candidates returns for an input that selects a
\* node with trigger T has full_text = T + " " + the text of an item of the
\* node, completion = that text and the description of the item; for the
\* root full_text is the text.  get_best_match returns the full_text of the
\* first candidate of get_candidates for the same input, none if there is
\* none.
C27_CandidateFields ==
    \A input \in Inputs :
        LET built(node, candidates) ==
                \A i \in 1..Len(candidates) :
                    /\ candidates[i].full_text
                           = IF TriggerOf(node) = <<>> THEN candidates[i].completion
                             ELSE TriggerOf(node) \o <<" ">> \o candidates[i].completion
                    /\ \E k \in 1..Len(node.completions) :
                           /\ node.completions[k].text = candidates[i].completion
                           /\ node.completions[k].description
                                  = candidates[i].description
            best(candidates) ==
                get_best_match(Tree, input).result
                    = IF candidates = <<>> THEN None
                      ELSE Some(candidates[1].full_text)
            both(candidates) ==
                /\ built(find_deepest_match(Tree, input), candidates)
                /\ best(candidates)
        IN  both(get_candidates(Tree, input).result)

----------------------------------------------------------------------------
(* The hint line of a list of candidates, drawn on a terminal *)

\* the variables hold the fields of the record s
AppIs(s) ==
    /\ command_history = s.command_history
    /\ current_input = s.current_input
    /\ history_index = s.history_index
    /\ last_ctrl_c = s.last_ctrl_c
    /\ cursor_position = s.cursor_position
    /\ should_exit = s.should_exit
    /\ last_key_event = s.last_key_event
    /\ tab_tree = s.tab_tree
    /\ current_completions = s.current_completions
    /\ hints_rendered = s.hints_rendered
    /\ selected_completion_index = s.selected_completion_index
    /\ stdout_handle = s.stdout_handle

\* a new editor writing to a cleared terminal, completion enabled
OnTerminal ==
    enable_tab_completion([TerminalApp_new EXCEPT !.stdout_handle = Terminal(Rows)])

\* the completions c1, c2, ... the host registers under the root
Numbered(total) == [k \in 1..total |-> <<"c">> \o to_string(k)]

\* the editor after the host registered total completions and the user
\* typed c: all of them are candidates
Listed(total) ==
    process_event(register_tab_completions(OnTerminal, <<>>, Numbered(total)),
                  Press(Char("c"), "NONE"), 0).app

\* the keys that move the selection and change the list
HintKeys ==
    {Press(<<"Right">>, "ALT"), Press(<<"Left">>, "ALT"),
     Press(<<"Backspace">>, "NONE"), Press(Char("c"), "NONE")}

HintInit ==
    /\ \E total \in 1..MaxTotal :
           /\ AppIs(Listed(total))
           /\ scope = [len |-> 1, hist |-> 0, time |-> 0, items |-> total]
    /\ now = 0
    /\ ret = [quit |-> FALSE, line |-> None, logged |-> None]

HintNext == \E event \in HintKeys : ProcessEvent(event)

HintSpec == HintInit /\ [][HintNext]_vars

\* the row under the cursor, where the hint line is drawn
HintRow == stdout_handle.rows[stdout_handle.row + 1]

\* the candidates from..to-1 of the list between brackets, two spaces apart
RECURSIVE Bracketed(_, _)
Bracketed(from, to) ==
    IF from >= to THEN <<>>
    ELSE <<"[">> \o current_completions[from + 1].completion \o <<"]">>
             \o (IF from + 1 < to THEN <<" ", " ">> ELSE <<>>)
             \o Bracketed(from + 1, to)

\* the counts of hidden candidates as the hint line shows them
Hidden(left, right) ==
    IF left > 0 /\ right > 0
    THEN <<" ", " ", "(", "+">> \o to_string(left) \o <<"/", "+">>
             \o to_string(right) \o <<")">>
    ELSE IF left > 0
    THEN <<" ", " ", "(", "+">> \o to_string(left) \o <<"←", ")">>
    ELSE IF right > 0
    THEN <<" ", " ", "(", "→", "+">> \o to_string(right) \o <<")">>
    ELSE <<>>

\* the start of the window of a list of total candidates with s selected
WindowStart(total, s) ==
    IF total <= 5 THEN 0
    ELSE IF s <= 2 THEN 0
    ELSE IF s >= total - 2 THEN total - 5
    ELSE s - 2

\* C19: for every count total of candidates and every selected index
\* s < total, the window [start, end) displayed has
\* 0 <= start <= s < end <= total and end - start = min(total, 5), with
\* start = 0 if s <= 2, total - 5 if s >= total - 2 and s - 2 otherwise when
\* total > 5; the hint line drawn shows the candidates of the window and the
\* hidden counts start and total - end.
C19_HintWindow ==
    /\ \A total \in 1..MaxTotal : \A s \in 0..(total - 1) :
           LET w == hint_window(total, s)
           IN  /\ 0 <= w.start_idx /\ w.start_idx <= s
               /\ s < w.end_idx /\ w.end_idx <= total
               /\ w.end_idx - w.start_idx = Min(total, 5)
               /\ w.start_idx = WindowStart(total, s)
    /\ hints_rendered =>
           LET total == Len(current_completions)
               start == WindowStart(total, selected_completion_index)
               end == start + Min(total, 5)
           IN  HintRow = Bracketed(start, end) \o Hidden(start, total - end)

\* 12 candidates with the sixth selected: the hint line shows the candidates
\* 3..7 and three hidden on the left, four on the right
C19_Witness ==
    /\ Len(current_completions) = 12
    /\ selected_completion_index = 5
    /\ hints_rendered
    /\ SubSeq(HintRow, 1, 10) = <<"[", "c", "4", "]", " ", " ", "[", "c", "5", "]">>
    /\ SubSeq(HintRow, Len(HintRow) - 8, Len(HintRow))
           = <<" ", " ", "(", "+", "3", "/", "+", "4", ")">>

----------------------------------------------------------------------------
(* The editor and the log lines of the host on a terminal of Rows rows *)

\* the lines the host logs
LogLines == {<<"x">>, <<"l", "o", "g", "g", "e", "d">>}

\* the keys the user presses
ScreenKeys ==
    {Press(Char("a"), "NONE"), Press(<<"Backspace">>, "NONE"),
     Press(<<"Enter">>, "NONE")}

\* the editor on a cleared terminal, the completion aa registered under the
\* root
ScreenInit ==
    /\ AppIs(register_tab_completions(OnTerminal, <<>>, << <<"a", "a">> >>))
    /\ scope = [len |-> 2, hist |-> 1, time |-> 0, items |-> 1]
    /\ now = 0
    /\ ret = [quit |-> FALSE, line |-> None, logged |-> None]

\* the host logs a line
PrintLogEntry(log_line) ==
    /\ SetApp(print_log_entry(St, log_line))
    /\ ret' = [quit |-> FALSE, line |-> None, logged |-> Some(log_line)]
    /\ UNCHANGED <<now, scope>>

ScreenNext ==
    \/ \E event \in ScreenKeys : ProcessEvent(event)
    \/ \E log_line \in LogLines : PrintLogEntry(log_line)

ScreenSpec == ScreenInit /\ [][ScreenNext]_vars

\* what a row of the screen shows: its text up to the last character that
\* is not a space
RECURSIVE Visible(_)
Visible(line) ==
    IF line = <<>> THEN <<>>
    ELSE IF line[Len(line)] = " " THEN Visible(SubSeq(line, 1, Len(line) - 1))
    ELSE line

\* the rows of a screen from row k on are blank
BlankFrom(screen, k) ==
    \A i \in k..Len(screen) : Visible(screen[i]) = <<>>

\* C20: after print_log_entry(line), from any state of the editor, the
\* terminal shows the log line alone on a row, the prompt and the buffer on
\* the row under it, the hint line on the row under that exactly when there
\* are candidates, and nothing else below the log line.
C20_LogAboveInput ==
    \A log_line \in LogLines :
        LET screen == print_log_entry(St, log_line).stdout_handle.rows
        IN  \E k \in 1..(Len(screen) - 1) :
                /\ Visible(screen[k]) = log_line
                /\ Visible(screen[k + 1]) = Visible(Prompt \o current_input)
                /\ IF current_completions # <<>>
                   THEN /\ k + 2 <= Len(screen)
                        /\ Visible(screen[k + 2])
                               = Bracketed(0, Len(current_completions))
                        /\ BlankFrom(screen, k + 3)
                   ELSE BlankFrom(screen, k + 2)

----------------------------------------------------------------------------
(* The claims about single keys of the editor, stated of Spec *)

BackspaceKey == Press(<<"Backspace">>, "NONE")
TabKey == Press(<<"Tab">>, "NONE")

\* C30: from any state, with the cursor at p in the buffer b, a character c
\* typed gives b[0..p] + c + b[p..] and the cursor p + 1, and a Backspace
\* right after it gives back b and p; Backspace with the cursor at 0 changes
\* neither.
C30_InsertBackspaceInverse ==
    LET b == current_input
        p == cursor_position
        undone(after) == /\ after.current_input = b
                         /\ after.cursor_position = p
        inserted(after, c) ==
            /\ after.current_input
                   = SubSeq(b, 1, p) \o <<c>> \o SubSeq(b, p + 1, Len(b))
            /\ after.cursor_position = p + 1
            /\ undone(process_event(after, BackspaceKey, now).app)
    IN  /\ \A c \in Chars :
               inserted(process_event(St, Press(Char(c), "NONE"), now).app, c)
        /\ p = 0 => undone(process_event(St, BackspaceKey, now).app)

\* a character was typed between two others: the cursor is inside the buffer
C30_Witness ==
    /\ current_input = <<"a", " ", "a">>
    /\ cursor_position = 2

\* C29: Tab with candidates puts the full_text of the selected candidate in
\* the buffer, the cursor at its end, and the candidates of the new buffer
\* in the list with the first selected; Tab with no candidates and no best
\* match, or with completion not enabled, leaves buffer and cursor alone.
C29_TabAppliesSelection ==
    LET completed(after, text) ==
            /\ after.current_input = text
            /\ after.cursor_position = Len(text)
            /\ after.current_completions
                   = get_candidates(Unwrap(tab_tree), text).result
            /\ after.selected_completion_index = 0
        untouched(after) ==
            /\ after.current_input = current_input
            /\ after.cursor_position = cursor_position
        no_match ==
            \/ tab_tree = None
            \/ get_best_match(Unwrap(tab_tree), current_input).result = None
    IN  IF current_completions # <<>>
        THEN /\ selected_completion_index < Len(current_completions)
             /\ completed(process_event(St, TabKey, now).app,
                          current_completions[selected_completion_index + 1].full_text)
        ELSE no_match => untouched(process_event(St, TabKey, now).app)

\* two candidates, the second selected
C29_Witness ==
    /\ Len(current_completions) = 2
    /\ selected_completion_index = 1
    /\ current_completions[2].full_text # current_completions[1].full_text

----------------------------------------------------------------------------
(* The claims about the read loop *)

\* C23: a key event of kind Release delivered to the read loop, whatever its
\* key code, leaves buffer, cursor, history, history_index and candidates as
\* they are and gives no submitted line.
C23_ReleaseIgnored ==
    \A event \in {e \in KeyEvents : e.key /\ e.kind = "Release"} :
        LET ignored(r) ==
                /\ r.app.current_input = current_input
                /\ r.app.cursor_position = cursor_position
                /\ r.app.command_history = command_history
                /\ r.app.history_index = history_index
                /\ r.app.current_completions = current_completions
                /\ r.line = None
        IN  ignored(read_input_event(St, event, now))

\* a Ctrl+C that confirms the exit: the buffer is empty and the last Ctrl+C
\* was less than ExitWindow seconds ago
Confirmed ==
    /\ current_input = <<>>
    /\ IsSome(last_ctrl_c)
    /\ now - Unwrap(last_ctrl_c) < ExitWindow * 1000

\* C24: an iteration of read_input returns None only if the event is Ctrl+D
\* or a confirmed Ctrl+C, or should_exit is set; in particular an iteration
\* without an event returns None only if should_exit is set, and a submit
\* of a non-blank buffer with should_exit not set returns the line.
C24_SessionEnd ==
    /\ \A event \in KeyEvents :
           LET ends(r) ==
                   /\ r.quit => \/ event = CtrlD
                                \/ event = CtrlC /\ Confirmed
                                \/ should_exit
                   /\ (/\ event = EnterKey
                       /\ trim(current_input) # <<>>
                       /\ ~should_exit)
                          => ~r.quit /\ r.line = Some(current_input)
           IN  ends(read_input_event(St, event, now))
    /\ read_input_idle(St).quit => should_exit

\* read_input returned None on a key, should_exit not set: a Ctrl+C was
\* confirmed
C24_Witness ==
    /\ ret.quit
    /\ ~should_exit
    /\ IsSome(last_ctrl_c)
    /\ IsSome(ret.logged)
    /\ Unwrap(ret.logged) = MsgExiting

----------------------------------------------------------------------------
(* The read loop on its own: iterations of read_input with and without an  *)
(* event, the clock, and the host setting should_exit between two calls.   *)
(* The sleep of 50 ms in the loop ends again and again, so an iteration    *)
(* without an event is taken for as long as it has something to return.    *)

ReadNext ==
    \/ \E event \in KeyEvents : ReadInputEvent(event)
    \/ ReadInputIdle
    \/ \E dt \in TickSteps : Tick(dt)
    \/ SetShouldExit

ReadSpec == Init /\ [][ReadNext]_vars /\ WF_vars(ReadInputIdle)

\* C25: once should_exit is set, read_input returns None in the end, with no
\* key event needed, and no iteration returns a submitted line while it is
\* set.
C25_ExitFlagEndsRead ==
    /\ [](should_exit =>
              /\ read_input_idle(St).line = None
              /\ \A event \in KeyEvents :
                     read_input_event(St, event, now).line = None)
    /\ (should_exit ~> (ret.quit /\ ret.line = None))

\* should_exit was set with text in the buffer and read_input returned None
C25_Witness ==
    /\ should_exit
    /\ current_input # <<>>
    /\ trim(current_input) # <<>>
    /\ ret.quit
    /\ ret.line = None

----------------------------------------------------------------------------
(* The claim about hints_rendered, stated of ScreenSpec *)

\* the rows of a screen that begin with the prompt: the submitted lines and,
\* last of them, the input line
Prompted(screen) == {k \in 1..Len(screen) : starts_with(screen[k], Prompt)}

\* a hint line is drawn on the row beneath the input line of the editor s
HintDrawn(s) ==
    LET screen == s.stdout_handle.rows
    IN  \E k \in Prompted(screen) :
            /\ \A other \in Prompted(screen) : other <= k
            /\ k < Len(screen)
            /\ Visible(screen[k + 1]) # <<>>
            /\ screen[k + 1][1] = "["

\* hints_rendered of the editor s tells whether the hint line is drawn
FlagTellsHint(s) == s.hints_rendered <=> HintDrawn(s)

\* C28: between operations hints_rendered is true exactly when a hint line is
\* drawn on the row beneath the input line, also after every key event and
\* every log entry (the message of Ctrl+C taken from the log lines);
\* clear_input_line leaves it false and the row below as it
\* was unless it was true; a render leaves it true exactly when there are
\* candidates; the handlers that neither clear nor render leave it alone.
C28_HintsRendered ==
    LET cleared(after) ==
            /\ ~after.hints_rendered
            /\ ~hints_rendered =>
                   \A k \in 1..Rows :
                       k # stdout_handle.row =>
                           after.stdout_handle.rows[k] = stdout_handle.rows[k]
        rendered(after) ==
            after.hints_rendered <=> after.current_completions # <<>>
        alone(after) == after.hints_rendered = hints_rendered
    IN  /\ FlagTellsHint(St)
        /\ \A event \in KeyEvents \ {CtrlC} :
               FlagTellsHint(process_event(St, event, now).app)
        /\ \A log_line \in LogLines :
               /\ FlagTellsHint(print_log_entry(St, log_line))
               /\ rendered(print_log_entry(St, log_line))
               /\ FlagTellsHint(print_log_entry(handle_ctrl_c(St, now).app,
                                                log_line))
        /\ cleared(clear_input_line(St))
        /\ rendered(render_input_line(St))
        /\ rendered(render_input_line_no_clear(St))
        /\ \A c \in Chars : alone(handle_char_input(St, c))
        /\ alone(update_completions(St))
        /\ alone(handle_tab_key(St))
        /\ alone(handle_up_key(St))
        /\ alone(handle_down_key(St))
        /\ alone(handle_ctrl_c(St, now).app)
        /\ alone(enable_tab_completion(St))
        /\ alone(register_tab_completions(St, <<>>, << <<"a">> >>))

\* the hint line was drawn with the input line on the last row of the
\* terminal, which scrolled
C28_Witness ==
    /\ hints_rendered
    /\ HintDrawn(St)
    /\ stdout_handle.row = Rows
    /\ Visible(stdout_handle.rows[1]) # <<>>

----------------------------------------------------------------------------
(* The editor on a driver that fails: in a call the driver carries out a   *)
(* number of commands and fails the next one, once.  The host goes on      *)
(* until a call returns an Err.                                            *)

\* the most commands the driver carries out before the one it fails; a draw
\* of the input line and one hint takes fewer
MaxCommands == 30

\* when the driver fails in a call: never, or after n commands
FailPoints == {None} \cup {Some(n) : n \in 0..MaxCommands}

\* the fields s at the start of a call in which the driver fails after
\* fails_after commands; the Err of the call before has been returned
armed(s, fails_after) ==
    [s EXCEPT !.stdout_handle =
                  [@ EXCEPT !.fails_after = fails_after, !.err = FALSE]]

\* the fields s at the end of the call: a failure that did not come is over
settled(s) == [s EXCEPT !.stdout_handle = [@ EXCEPT !.fails_after = None]]

\* an iteration of read_input's loop with an event, the driver failing or not
ReadInputFailing(event, fails_after) ==
    /\ ~stdout_handle.err
    /\ EventInBounds(event)
    /\ LET returns(r) ==
               /\ SetApp(settled(r.app))
               /\ ret' = [quit |-> r.quit, line |-> r.line, logged |-> r.logged]
       IN  returns(read_input_event(armed(St, fails_after), event, now))
    /\ UNCHANGED <<now, scope>>

\* the host logs a line between two calls of read_input
LogBetweenReads(log_line) ==
    /\ ~stdout_handle.err
    /\ PrintLogEntry(log_line)

\* the height of the terminal of the failing driver
FailRows == 2

\* the editor on a cleared terminal, the completion aa registered under the
\* root, room for one character in the buffer
FailInit ==
    /\ AppIs(register_tab_completions(
                 enable_tab_completion(
                     [TerminalApp_new EXCEPT !.stdout_handle = Terminal(FailRows)]),
                 <<>>, << <<"a", "a">> >>))
    /\ scope = [len |-> 1, hist |-> 1, time |-> 0, items |-> 1]
    /\ now = 0
    /\ ret = [quit |-> FALSE, line |-> None, logged |-> None]

FailNext ==
    \/ \E event \in ScreenKeys, fails_after \in FailPoints :
           ReadInputFailing(event, fails_after)
    \/ LogBetweenReads(<<"x">>)

FailSpec == FailInit /\ [][FailNext]_vars

\* the driver failed a command in the call that gave the fields s
DriverFailed(s) == s.stdout_handle.fails_after = None

\* C21: whichever command of render_input_line or of
\* render_input_line_no_clear the driver fails, the hint line's included,
\* the cursor has been shown again when the call returns.
C21_ShowOnError ==
    \A n \in 0..MaxCommands :
        LET shown(after) == DriverFailed(after) => after.stdout_handle.visible
        IN  /\ shown(render_input_line(armed(St, Some(n))))
            /\ shown(render_input_line_no_clear(armed(St, Some(n))))

\* a draw failed while it drew the hint line: its Err was returned with the
\* cursor shown
C21_Witness ==
    /\ stdout_handle.err
    /\ stdout_handle.visible
    /\ current_completions # <<>>
    /\ ~hints_rendered
    /\ stdout_handle.saved[1] = stdout_handle.row - 1

\* C22: whichever command the driver fails while read_input or process_event
\* handles an event, the call returns an Err; so it does when the message of
\* Ctrl+C (taken from the log lines) is logged.
C22_ErrorsReturned ==
    \A n \in 0..MaxCommands :
        LET returned(after) == DriverFailed(after) => failed(after)
        IN  /\ \A event \in KeyEvents \ {CtrlC} :
                   /\ returned(read_input_event(armed(St, Some(n)), event, now).app)
                   /\ returned(process_event(armed(St, Some(n)), event, now).app)
            /\ \A log_line \in LogLines :
                   returned(print_log_entry(
                                handle_ctrl_c(armed(St, Some(n)), now).app,
                                log_line))

----------------------------------------------------------------------------
(* The claim about registrations and the cache, stated of TabSpec *)

\* what get_candidates computes for an input over a tree when its cache
\* holds the result of another input
Evaluated(tree, input) ==
    get_candidates([tree EXCEPT !.last_input = input \o <<"?">>], input).result

\* C31: after items are registered under a context, get_candidates for an
\* input that selects the node of that context returns what an evaluation
\* over the tree as it now is returns, also when that input was the query
\* before the registration.
C31_RegistrationReflected ==
    \A context \in TabContexts, items \in TabItemLists, strategy \in Strategies :
        LET reflected(after) ==
                \A input \in QueryInputs :
                    find_deepest_match(after, input).trigger
                        = context_trigger(context)
                    => get_candidates(after, input).result
                           = Evaluated(after, input)
        IN  reflected(register_completions_advanced(Tree, context, items, strategy))

----------------------------------------------------------------------------
(* The claims about what every state of the editor satisfies, stated of    *)
(* Spec                                                                    *)

AltLeft == Press(<<"Left">>, "ALT")
AltRight == Press(<<"Right">>, "ALT")

\* C32: the selection is never negative and, while there are candidates, it
\* is on one of them; so it is after Alt+Left and after Alt+Right, which
\* move it by one at most, and the window of the hint line holds it.
C32_SelectionInRange ==
    LET on_candidate(app) ==
            /\ app.selected_completion_index >= 0
            /\ app.current_completions # <<>> =>
                   app.selected_completion_index < Len(app.current_completions)
        left(after) ==
            /\ on_candidate(after)
            /\ after.selected_completion_index
                   \in {selected_completion_index - 1, selected_completion_index}
        right(after) ==
            /\ on_candidate(after)
            /\ after.selected_completion_index
                   \in {selected_completion_index, selected_completion_index + 1}
        held(w) ==
            /\ 0 <= w.start_idx
            /\ w.start_idx <= selected_completion_index
            /\ selected_completion_index < w.end_idx
            /\ w.end_idx <= Len(current_completions)
    IN  /\ on_candidate(St)
        /\ left(process_event(St, AltLeft, now).app)
        /\ right(process_event(St, AltRight, now).app)
        /\ current_completions # <<>> =>
               held(hint_window(Len(current_completions),
                                selected_completion_index))

\* Alt+Right has moved the selection to the last of several candidates
C32_Witness ==
    /\ selected_completion_index > 0
    /\ selected_completion_index = Len(current_completions) - 1
    /\ process_event(St, AltRight, now).app.selected_completion_index
           = selected_completion_index

\* C33: history_index is None or Some(i) with 0 <= i < the length of the
\* history, in every state and after Up and after Down pressed in it; so the
\* history is not empty while an entry is browsed.
C33_HistoryIndexValid ==
    LET valid(app) ==
            IsSome(app.history_index) =>
                /\ 0 <= Unwrap(app.history_index)
                /\ Unwrap(app.history_index) < Len(app.command_history)
    IN  /\ valid(St)
        /\ valid(handle_up_key(St))
        /\ valid(handle_down_key(St))

\* the newest of several entries is browsed and has been edited in the buffer
C33_Witness ==
    /\ Len(command_history) > 1
    /\ history_index = Some(Len(command_history) - 1)
    /\ current_input # command_history[Len(command_history)]

\* C34: while the candidate list of the editor is not empty, the input the
\* engine was last queried with is the buffer and the list is the engine's
\* result for it.
C34_CandidatesOfBuffer ==
    current_completions # <<>> =>
        /\ IsSome(tab_tree)
        /\ Unwrap(tab_tree).last_input = current_input
        /\ Unwrap(tab_tree).current_candidates = current_completions

C34_Witness ==
    /\ current_completions # <<>>
    /\ Len(current_input) > 1
    /\ cursor_position < Len(current_input)
    /\ Unwrap(tab_tree).last_input = current_input

\* the last Ctrl+C that set the timer is less than ExitWindow seconds old
InWindow ==
    /\ IsSome(last_ctrl_c)
    /\ now - Unwrap(last_ctrl_c) < ExitWindow * 1000

============================================================================
